---- MODULE Spec2Model ----
(***************************************************************************)
(* Token lifecycle engine of fabric8-auth                                  *)
(* (authorization/token/service/token_service.go): the Audit algorithm,    *)
(* token registration and the bulk status update, over a token table, a    *)
(* token_privilege table and the privilege cache.                          *)
(***************************************************************************)
EXTENDS Integers, Sequences, FiniteSets, TLC

\* ------------------------------------------------------------------ bounds

\* number of token strings ever issued (jti values 1..MaxTokens)
MaxTokens == 2
\* GetRPTTokenMaxPermissions() ranges over 0..MaxPermissions
MaxPermissions == 2
\* calls of RegisterToken for token strings signed outside Audit
MaxRegistrations == 1
\* bulk status updates
MaxStatusUpdates == 1
\* invalidations of privilege cache rows
MaxInvalidations == 1
\* token strings signed outside the engine before a refresh is asked for
MaxIssued == 2
\* jti values in the runs of ExchangeRefreshToken
MaxExchangeTokens == 4
\* calls of ExchangeRefreshToken in one run
MaxExchanges == 1
\* calls of CleanupExpiredTokens in one run
MaxCleanups == 1
\* calls that follow the issue of the token strings in a run of all the calls
MaxCalls == 1
\* the latest time (in hours) of a cleanup
MaxTime == 3
\* the longest retention period (in hours) of the configuration
MaxRetentionHours == 1
\* the external tokens stored in one run
MaxExternalTokens == 3
\* the longest scope list handed to scopesEquivalent
MaxScopes == 3

\* ------------------------------------------------------------- value sets

Identities == {"i1", "i2"}
Resources == {"r1", "r2", "r3"}
\* a resource id for which ResourceRepository.CheckExists answers NotFound
UnknownResource == "r0"
\* scope lists the privilege cache may hold (a set of scope names, in some order)
ScopeLists == {<<"a">>, <<"a", "b">>, <<"b", "a">>}
\* expiry times (epoch seconds) of privilege cache rows
Expiries == {1, 2}
TokenIDs == 1..MaxTokens
TokenTypes == {"access_token", "refresh_token", "rpt_token"}

\* status flags of a token record (authtoken.TOKEN_STATUS_*)
Flags == {"STALE", "REVOKED", "LOGGED_OUT", "DEPROVISIONED"}

\* error values: the error type and, for Unauthorized, its code
NoError == [type |-> "none", code |-> "none"]
\* errors.NewBadParameterErrorFromString(param, ...): the code is the parameter
BadParameterErrorFromString(param) == [type |-> "BadParameter", code |-> param]
UnauthorizedError == [type |-> "Unauthorized", code |-> "none"]
UnauthorizedErrorWithCode(c) == [type |-> "Unauthorized", code |-> c]
InternalError == [type |-> "Internal", code |-> "none"]
\* errors.NotFoundError of a repository
NotFoundError == [type |-> "NotFound", code |-> "none"]
\* a run-time panic of the Go code: a failed type assertion or a nil pointer
Panic(what) == [type |-> "panic", code |-> what]
\* an error of a collaborator returned as it came
CollaboratorError == [type |-> "collaborator", code |-> "none"]

UNAUTHORIZED_CODE_TOKEN_DEPROVISIONED == "token_deprovisioned"
UNAUTHORIZED_CODE_TOKEN_REVOKED == "token_revoked"

\* ------------------------------------------------------------------ state

VARIABLES
    tokens,      \* token table: TokenID -> Token row, for the rows that exist
    privileges,  \* token_privilege table: set of [TokenID, PrivilegeCacheID]
    cache,       \* privilege_cache table: <<identity, resource>> -> row
    claims,      \* the signed token strings issued so far: jti -> claims
    maxPerms,    \* config.GetRPTTokenMaxPermissions()
    used,        \* how many of the bounded calls were made
    last,        \* the call that has just returned: arguments, locals, results
    identities,  \* identity table: identity -> [Banned, LastActive]
    externalTokens \* external_token table: the rows in the order of creation

vars ==
    <<tokens, privileges, cache, claims, maxPerms, used, last, identities,
      externalTokens>>

\* ------------------------------------------------------- sequence helpers

Range(s) == {s[k] : k \in 1..Len(s)}

Min(a, b) == IF a < b THEN a ELSE b

\* the sequences that list every element of S exactly once
Perms(S) == {s \in [1..Cardinality(S) -> S] : Range(s) = S}

\* ------------------------------------------------------ token status model

\* Token.Valid() that overlooks the STALE flag
Valid_IgnoresStale(tkn) == tkn.Status \ {"STALE"} = {}

\* Token.Valid(): no status flag is set
Valid(tkn) == tkn.Status = {}

\* Token.HasStatus(flag)
HasStatus(tkn, flag) == flag \in tkn.Status

\* ------------------------------------------------------- privilege cache

CacheID(identity, resource) == <<identity, resource>>

\* the expiry time of a row computed now: no cached row expires later
FreshExpiry == CHOOSE e \in Expiries : \A d \in Expiries : d <= e

\* what a recomputation of the scopes of resource r yields during this call
FreshRow(fresh, r) ==
    [Scopes |-> fresh[r], ExpiryTime |-> FreshExpiry, Stale |-> FALSE]

\* PrivilegeCacheService.CachedPrivileges(identity, resource): the cached row,
\* recomputed first when it is missing or stale
CachedPrivileges(c, identity, r, fresh) ==
    IF CacheID(identity, r) \in DOMAIN c /\ ~c[CacheID(identity, r)].Stale
    THEN c[CacheID(identity, r)]
    ELSE FreshRow(fresh, r)

\* the cache table when a recomputed row is answered and not stored
CacheAfter_NotStored(c, identity, rs, fresh) == c

\* the cache table after CachedPrivileges was called for the resources in rs
CacheAfter(c, identity, rs, fresh) ==
    [id \in DOMAIN c \cup {CacheID(identity, r) : r \in rs} |->
        IF id[1] = identity /\ id[2] \in rs
        THEN CachedPrivileges(c, identity, id[2], fresh)
        ELSE c[id]]

\* TokenRepository.ListPrivileges(tokenID): the privilege cache rows the
\* token's token_privilege rows reference
ListPrivileges(c, privs, tokenID) ==
    {[PrivilegeCacheID |-> p.PrivilegeCacheID,
      ResourceID |-> p.PrivilegeCacheID[2],
      Scopes |-> c[p.PrivilegeCacheID].Scopes,
      ExpiryTime |-> c[p.PrivilegeCacheID].ExpiryTime,
      Stale |-> c[p.PrivilegeCacheID].Stale] :
        p \in {q \in privs : q.TokenID = tokenID}}

\* -------------------------------------------------------- scopesEquivalent

\* scopesEquivalent(value1, value2): equal length, and every element of
\* value1 occurs in value2
scopesEquivalent(value1, value2) ==
    /\ Len(value1) = Len(value2)
    /\ \A k \in 1..Len(value1) : \E j \in 1..Len(value2) : value1[k] = value2[j]

\* ------------------------------------------------------------ transactions

\* the time and the retention period of a call of CleanupExpiredTokens
NoCleanup == [now |-> 0, retentionHours |-> 0]

\* no identity: the nil *account.Identity
NilIdentity == "nil"

\* what a call of RetrieveExternalToken returned besides its error, here of
\* a call that returned nothing: the app.ExternalToken, the link hint and the
\* step that failed
NoExternal == [token |-> <<>>, hint |-> "", failed |-> "none"]

\* the two lists of a call of scopesEquivalent and its answer, here of no call
NoScopes == [value1 |-> <<>>, value2 |-> <<>>, equivalent |-> FALSE]

\* what a call of ExchangeRefreshToken did: whether the token manager was
\* asked for a token pair, what the identity lookup answered and the identity
\* the call went on with, the RPT it read, the permissions and token
\* privileges it migrated, the jti of the pair it registered, and the step
\* that failed
NoExchange ==
    [generated |-> FALSE, identity |-> NilIdentity, rpt |-> 0, rptString |-> "",
     lookup |-> "none", failed |-> "none", permissions |-> <<>>, tokenPrivs |-> <<>>,
     pair |-> <<>>]

DB(t, p, c) == [tokens |-> t, privileges |-> p, cache |-> c]

\* BaseService.ExecuteInTransaction(todo): the writes of todo are kept when
\* it returns nil and rolled back when it returns an error
ExecuteInTransaction(before, body) ==
    IF body.err = NoError THEN body.db ELSE before

\* the error ExecuteInTransaction hands back: a typed error as it is, any
\* other error as Internal
TransactionError(e) ==
    IF e.type = "collaborator" THEN InternalError ELSE e

\* ------------------------------------------------------------ RegisterToken

\* the index of the CreatePrivilege call that fails under the fault, 0 for none
FailAt(fault, n) ==
    IF fault = "privilege_first" THEN Min(1, n)
    ELSE IF fault = "privilege_last" THEN n
    ELSE 0

\* the loop that leaves the last privilege unwritten
CreatePrivileges_SkipLast(db, tokenID, privs, failAt) ==
    LET n == IF failAt \in 1..Len(privs) THEN failAt - 1 ELSE Len(privs) - 1
    IN  [failed |-> failAt \in 1..Len(privs),
         db |-> [db EXCEPT !.privileges = @ \cup
                    {[TokenID |-> tokenID, PrivilegeCacheID |-> privs[k]] :
                        k \in 1..n}]]

\* the loop "for each tokenPriv: set its TokenID, CreatePrivilege, return on
\* error": the rows before index failAt are written
CreatePrivileges(db, tokenID, privs, failAt) ==
    LET n == IF failAt \in 1..Len(privs) THEN failAt - 1 ELSE Len(privs)
    IN  [failed |-> failAt \in 1..Len(privs),
         db |-> [db EXCEPT !.privileges = @ \cup
                    {[TokenID |-> tokenID, PrivilegeCacheID |-> privs[k]] :
                        k \in 1..n}]]

\* the row RegisterToken builds from the parsed token string
NewTokenRow(identityID, tokenID, tokenClaims, tokenType) ==
    [TokenID |-> tokenID,
     IdentityID |-> identityID,
     Status |-> {},
     TokenType |-> tokenType,
     ExpiryTime |-> tokenClaims.ExpiresAt]

\* the transaction of RegisterToken: Create the row, then its privileges
RegisterTokenBody(db, tkn, privs, fault) ==
    IF fault = "create" \/ tkn.TokenID \in DOMAIN db.tokens
    THEN [err |-> CollaboratorError, db |-> db]
    ELSE LET db1 == [db EXCEPT !.tokens =
                        [id \in DOMAIN db.tokens \cup {tkn.TokenID} |->
                            IF id = tkn.TokenID THEN tkn ELSE db.tokens[id]]]
             w == CreatePrivileges(db1, tkn.TokenID, privs, FailAt(fault, Len(privs)))
         IN  [err |-> IF w.failed THEN CollaboratorError ELSE NoError, db |-> w.db]

\* RegisterToken with its function called outside a transaction
RegisterToken_NoTransaction(db, identityID, tokenID, tokenClaims, tokenType, privs, fault) ==
    LET tkn == NewTokenRow(identityID, tokenID, tokenClaims, tokenType)
        body == RegisterTokenBody(db, tkn, privs, fault)
    IN  [err |-> IF fault = "parse" THEN BadParameterErrorFromString("tokenString")
                 ELSE IF body.err # NoError THEN InternalError ELSE NoError,
         db |-> IF fault = "parse" THEN db ELSE body.db,
         tkn |-> tkn,
         partial |-> body.err # NoError /\ body.db.tokens # db.tokens]

\* RegisterToken(identityID, tokenString, tokenType, privileges), the token
\* string parsed into tokenClaims with jti tokenID; under the fault "parse"
\* the token manager cannot parse the string and nothing is written
RegisterToken(db, identityID, tokenID, tokenClaims, tokenType, privs, fault) ==
    LET tkn == NewTokenRow(identityID, tokenID, tokenClaims, tokenType)
        body == RegisterTokenBody(db, tkn, privs, fault)
    IN  [err |-> IF fault = "parse" THEN BadParameterErrorFromString("tokenString")
                 ELSE IF body.err # NoError THEN InternalError ELSE NoError,
         db |-> IF fault = "parse" THEN db ELSE ExecuteInTransaction(db, body),
         tkn |-> tkn,
         partial |-> body.err # NoError /\ body.db.tokens # db.tokens]

\* ------------------------------------------------------------------- Audit

\* lines 104-112: the resource is among the permissions of a recorded token
ResourceExistsInToken(loaded, permissions, resourceID) ==
    /\ loaded # <<>>
    /\ \E k \in 1..Len(permissions) : permissions[k].ResourceSetID = resourceID

\* variants of the checks, each with one check left out or out of order

\* a valid token that holds the resource is replaced all the same
AuditCheck_NoSufficient(loaded, identity, resourceExistsInToken) ==
    IF loaded = <<>> THEN "mint"
    ELSE IF loaded[1].IdentityID # identity THEN "not_owner"
    ELSE IF HasStatus(loaded[1], "DEPROVISIONED") THEN "deprovisioned"
    ELSE IF HasStatus(loaded[1], "REVOKED") \/ HasStatus(loaded[1], "LOGGED_OUT")
         THEN "revoked"
    ELSE IF HasStatus(loaded[1], "STALE") /\ resourceExistsInToken THEN "stale"
    ELSE "mint"

\* REVOKED and LOGGED_OUT are looked at before DEPROVISIONED
AuditCheck_RevokedFirst(loaded, identity, resourceExistsInToken) ==
    IF loaded = <<>> THEN "mint"
    ELSE IF loaded[1].IdentityID # identity THEN "not_owner"
    ELSE IF Valid(loaded[1]) /\ resourceExistsInToken THEN "sufficient"
    ELSE IF HasStatus(loaded[1], "REVOKED") \/ HasStatus(loaded[1], "LOGGED_OUT")
         THEN "revoked"
    ELSE IF HasStatus(loaded[1], "DEPROVISIONED") THEN "deprovisioned"
    ELSE IF HasStatus(loaded[1], "STALE") /\ resourceExistsInToken THEN "stale"
    ELSE "mint"

\* STALE is looked at before REVOKED and LOGGED_OUT
AuditCheck_StaleFirst(loaded, identity, resourceExistsInToken) ==
    IF loaded = <<>> THEN "mint"
    ELSE IF loaded[1].IdentityID # identity THEN "not_owner"
    ELSE IF Valid(loaded[1]) /\ resourceExistsInToken THEN "sufficient"
    ELSE IF HasStatus(loaded[1], "DEPROVISIONED") THEN "deprovisioned"
    ELSE IF HasStatus(loaded[1], "STALE") /\ resourceExistsInToken THEN "stale"
    ELSE IF HasStatus(loaded[1], "REVOKED") \/ HasStatus(loaded[1], "LOGGED_OUT")
         THEN "revoked"
    ELSE "mint"

\* a token without a record is refused
AuditCheck_RequiresRecord(loaded, identity, resourceExistsInToken) ==
    IF loaded = <<>> THEN "not_owner"
    ELSE IF loaded[1].IdentityID # identity THEN "not_owner"
    ELSE IF Valid(loaded[1]) /\ resourceExistsInToken THEN "sufficient"
    ELSE IF HasStatus(loaded[1], "DEPROVISIONED") THEN "deprovisioned"
    ELSE IF HasStatus(loaded[1], "REVOKED") \/ HasStatus(loaded[1], "LOGGED_OUT")
         THEN "revoked"
    ELSE IF HasStatus(loaded[1], "STALE") /\ resourceExistsInToken THEN "stale"
    ELSE "mint"

\* the owner is looked at after the check for a sufficient token
AuditCheck_OwnerLate(loaded, identity, resourceExistsInToken) ==
    IF loaded = <<>> THEN "mint"
    ELSE IF Valid(loaded[1]) /\ resourceExistsInToken THEN "sufficient"
    ELSE IF loaded[1].IdentityID # identity THEN "not_owner"
    ELSE IF HasStatus(loaded[1], "DEPROVISIONED") THEN "deprovisioned"
    ELSE IF HasStatus(loaded[1], "REVOKED") \/ HasStatus(loaded[1], "LOGGED_OUT")
         THEN "revoked"
    ELSE IF HasStatus(loaded[1], "STALE") /\ resourceExistsInToken THEN "stale"
    ELSE "mint"

\* the ownership and status checks of Audit, in the order of the code:
\* what Audit does with the loaded token
AuditCheck(loaded, identity, resourceExistsInToken) ==
    IF loaded = <<>> THEN "mint"
    ELSE IF loaded[1].IdentityID # identity THEN "not_owner"
    ELSE IF Valid(loaded[1]) /\ resourceExistsInToken THEN "sufficient"
    ELSE IF HasStatus(loaded[1], "DEPROVISIONED") THEN "deprovisioned"
    ELSE IF HasStatus(loaded[1], "REVOKED") \/ HasStatus(loaded[1], "LOGGED_OUT")
         THEN "revoked"
    ELSE IF HasStatus(loaded[1], "STALE") /\ resourceExistsInToken THEN "stale"
    ELSE "mint"

\* the error Audit returns for a check that ends the call, NoError for
\* (nil, nil)
CheckError(decision) ==
    IF decision = "not_owner" THEN UnauthorizedError
    ELSE IF decision = "deprovisioned"
         THEN UnauthorizedErrorWithCode(UNAUTHORIZED_CODE_TOKEN_DEPROVISIONED)
    ELSE IF decision = "revoked"
         THEN UnauthorizedErrorWithCode(UNAUTHORIZED_CODE_TOKEN_REVOKED)
    ELSE NoError

\* lines 145-182: the comparison of the token's permissions with the live
\* scopes and the persisted privileges; reads are the resources looked up in
\* the privilege cache before the loop ends
RECURSIVE CompareScopes(_, _, _, _, _, _)
CompareScopes(permissions, privs, c, identity, fresh, k) ==
    IF k > Len(permissions)
    THEN [scopesChanged |-> FALSE, permissionsChanged |-> FALSE, reads |-> {}]
    ELSE LET r == permissions[k].ResourceSetID
             scopes == CachedPrivileges(c, identity, r, fresh).Scopes
         IN  IF ~scopesEquivalent(permissions[k].Scopes, scopes)
             THEN [scopesChanged |-> TRUE, permissionsChanged |-> FALSE, reads |-> {r}]
             ELSE IF ~(\E priv \in privs : priv.ResourceID = r)
             THEN [scopesChanged |-> FALSE, permissionsChanged |-> TRUE, reads |-> {r}]
             ELSE LET rest == CompareScopes(permissions, privs, c, identity, fresh, k + 1)
                  IN  [rest EXCEPT !.reads = @ \cup {r}]

\* the comparison without the count of the persisted privileges
StaleCompare_NoCount(permissions, privs, c, identity, fresh) ==
    CompareScopes(permissions, privs, c, identity, fresh, 1)

\* lines 145-182 as a whole: the count of the persisted privileges first
StaleCompare(permissions, privs, c, identity, fresh) ==
    IF Cardinality(privs) # Len(permissions)
    THEN [scopesChanged |-> FALSE, permissionsChanged |-> TRUE, reads |-> {}]
    ELSE CompareScopes(permissions, privs, c, identity, fresh, 1)

\* the old privileges in any order
SortedByExpiry_Unsorted(old) == Perms(old)

\* lines 239-241: the orders sort.Slice may leave the old privileges in,
\* latest expiry first (the order of equal expiry times is not fixed)
SortedByExpiry(old) ==
    {s \in Perms(old) :
        \A j, k \in 1..Len(s) : j < k => s[j].ExpiryTime >= s[k].ExpiryTime}

\* the permission with the expiry time left at zero
RequestedPermission_NoExpiry(resourceID, privilegeCache) ==
    [ResourceSetID |-> resourceID, Scopes |-> privilegeCache.Scopes, Expiry |-> 0]

\* lines 216-228: the permission and the token privilege of the requested
\* resource
RequestedPermission(resourceID, privilegeCache) ==
    [ResourceSetID |-> resourceID,
     Scopes |-> privilegeCache.Scopes,
     Expiry |-> privilegeCache.ExpiryTime]

\* the loop without the skip of the requested resource
RECURSIVE Migrate_NoSkip(_, _, _, _, _, _, _, _)
Migrate_NoSkip(old, k, resourceID, c, identity, fresh, max, acc) ==
    IF k > Len(old) \/ Len(acc.perms) >= max THEN acc
    ELSE IF old[k].Stale
    THEN LET privilegeCache == CachedPrivileges(c, identity, old[k].ResourceID, fresh)
         IN  Migrate_NoSkip(old, k + 1, resourceID, c, identity, fresh, max,
                 [perms |-> Append(acc.perms,
                                [ResourceSetID |-> old[k].ResourceID,
                                 Scopes |-> privilegeCache.Scopes,
                                 Expiry |-> privilegeCache.ExpiryTime]),
                  tokenPrivs |-> Append(acc.tokenPrivs, old[k].PrivilegeCacheID),
                  reads |-> acc.reads \cup {old[k].ResourceID}])
    ELSE Migrate_NoSkip(old, k + 1, resourceID, c, identity, fresh, max,
             [perms |-> Append(acc.perms,
                            [ResourceSetID |-> old[k].ResourceID,
                             Scopes |-> old[k].Scopes,
                             Expiry |-> old[k].ExpiryTime]),
              tokenPrivs |-> Append(acc.tokenPrivs, old[k].PrivilegeCacheID),
              reads |-> acc.reads])

\* lines 245-285: the loop over the old token's privileges
RECURSIVE Migrate(_, _, _, _, _, _, _, _)
Migrate(old, k, resourceID, c, identity, fresh, max, acc) ==
    IF k > Len(old) \/ Len(acc.perms) >= max THEN acc
    ELSE IF old[k].ResourceID = resourceID
    THEN Migrate(old, k + 1, resourceID, c, identity, fresh, max, acc)
    ELSE IF old[k].Stale
    THEN LET privilegeCache == CachedPrivileges(c, identity, old[k].ResourceID, fresh)
         IN  Migrate(old, k + 1, resourceID, c, identity, fresh, max,
                 [perms |-> Append(acc.perms,
                                RequestedPermission(old[k].ResourceID, privilegeCache)),
                  tokenPrivs |-> Append(acc.tokenPrivs, old[k].PrivilegeCacheID),
                  reads |-> acc.reads \cup {old[k].ResourceID}])
    ELSE Migrate(old, k + 1, resourceID, c, identity, fresh, max,
             [perms |-> Append(acc.perms,
                            [ResourceSetID |-> old[k].ResourceID,
                             Scopes |-> old[k].Scopes,
                             Expiry |-> old[k].ExpiryTime]),
              tokenPrivs |-> Append(acc.tokenPrivs, old[k].PrivilegeCacheID),
              reads |-> acc.reads])

\* the orders in which the mint may walk the old token's privileges
MintOrders(db, identity, loaded, resourceID, fresh) ==
    IF loaded = <<>> THEN {<<>>}
    ELSE SortedByExpiry(
             ListPrivileges(CacheAfter(db.cache, identity, {resourceID}, fresh),
                            db.privileges, loaded[1].TokenID))

\* TokenManager.GenerateUnsignedRPTTokenForIdentity and SignRPTToken: the
\* claims of the new token string
GenerateRPTClaims(tokenClaims, identity, perms) ==
    [sub |-> identity, Permissions |-> perms, ExpiresAt |-> tokenClaims.ExpiresAt]

MintResult(e, db, acc, reads) ==
    [err |-> e, db |-> db, perms |-> acc.perms, tokenPrivs |-> acc.tokenPrivs,
     reads |-> reads, raised |-> e]

\* lines 202-316: the function Audit runs in its transaction
MintBody(db, identity, tokenClaims, loaded, resourceID, newID, fault, fresh, order, max) ==
    LET privilegeCache == CachedPrivileges(db.cache, identity, resourceID, fresh)
        db1 == [db EXCEPT !.cache = CacheAfter(db.cache, identity, {resourceID}, fresh)]
        acc0 == [perms |-> <<RequestedPermission(resourceID, privilegeCache)>>,
                 tokenPrivs |-> <<CacheID(identity, resourceID)>>,
                 reads |-> {}]
        acc == IF loaded = <<>> THEN acc0
               ELSE Migrate(order, 1, resourceID, db1.cache, identity, fresh, max, acc0)
        db2 == [db1 EXCEPT !.cache = CacheAfter(db1.cache, identity, acc.reads, fresh)]
        reg == RegisterToken(db2, identity, newID,
                   GenerateRPTClaims(tokenClaims, identity, acc.perms), "rpt_token",
                   <<>>, IF fault = "register" THEN "create"
                         ELSE IF fault = "register_parse" THEN "parse" ELSE "none")
        w == CreatePrivileges(reg.db, newID, acc.tokenPrivs,
                              FailAt(fault, Len(acc.tokenPrivs)))
    IN  IF fault = "mint_cache" THEN MintResult(InternalError, db, acc0, {})
        ELSE IF loaded # <<>> /\ fault = "mint_list"
        THEN MintResult(InternalError, db1, acc0, {resourceID})
        ELSE IF fault = "mint_refresh" /\ acc.reads # {}
        THEN MintResult(CollaboratorError, db1, acc0, {resourceID} \cup acc.reads)
        ELSE IF fault \in {"generate", "sign"}
        THEN MintResult(InternalError, db2, acc, {resourceID} \cup acc.reads)
        ELSE IF reg.err # NoError
        THEN [MintResult(InternalError, reg.db, acc, {resourceID} \cup acc.reads)
                EXCEPT !.raised = reg.err]
        ELSE IF w.failed
        THEN MintResult(InternalError, w.db, acc, {resourceID} \cup acc.reads)
        ELSE MintResult(NoError, w.db, acc, {resourceID} \cup acc.reads)

\* what a call of Audit leaves behind: its error, the token it minted, the
\* tables, the locals the properties speak of, and whether the transaction
\* had created the Token row when it failed
AuditResult(e, db, minted, newClaims, loaded, exists, reads, live, count) ==
    [err |-> e, db |-> db, minted |-> minted, newClaims |-> newClaims,
     loaded |-> loaded, resourceExistsInToken |-> exists, reads |-> reads,
     live |-> live, count |-> count, partial |-> FALSE, old |-> <<>>,
     tokenString |-> "signed", tokenType |-> "none", privs |-> <<>>,
     exchange |-> NoExchange, saved |-> <<>>, status |-> {}, cleanup |-> NoCleanup,
     external |-> NoExternal, scopes |-> NoScopes, transaction |-> <<>>,
     raised |-> e]

\* the old token's privileges as the mint sorted them: resource and expiry time
OldTokenPrivs(order) ==
    [k \in 1..Len(order) |->
        [ResourceID |-> order[k].ResourceID, ExpiryTime |-> order[k].ExpiryTime]]

\* the mint with its function called outside a transaction
AuditMint_NoTransaction(db, identity, tokenClaims, loaded, exists, resourceID, newID, fault, fresh, order, max, reads, live, count) ==
    LET body == MintBody(db, identity, tokenClaims, loaded, resourceID, newID, fault,
                         fresh, order, max)
    IN  IF body.err # NoError
        THEN [AuditResult(TransactionError(body.err), body.db,
                          <<>>, <<>>, loaded, exists, reads \cup body.reads, live, count)
                EXCEPT !.partial = newID \in DOMAIN body.db.tokens,
                       !.raised = body.raised]
        ELSE [AuditResult(NoError, body.db, <<newID>>,
                          <<GenerateRPTClaims(tokenClaims, identity, body.perms)>>,
                          loaded, exists, reads \cup body.reads, live, count)
                EXCEPT !.old = OldTokenPrivs(order)]

\* lines 198-322: the mint, in one transaction
AuditMint(db, identity, tokenClaims, loaded, exists, resourceID, newID, fault, fresh, order, max, reads, live, count) ==
    LET body == MintBody(db, identity, tokenClaims, loaded, resourceID, newID, fault,
                         fresh, order, max)
    IN  IF body.err # NoError
        THEN [AuditResult(TransactionError(body.err), ExecuteInTransaction(db, body),
                          <<>>, <<>>, loaded, exists, reads \cup body.reads, live, count)
                EXCEPT !.partial = newID \in DOMAIN body.db.tokens,
                       !.raised = body.raised]
        ELSE [AuditResult(NoError, ExecuteInTransaction(db, body), <<newID>>,
                          <<GenerateRPTClaims(tokenClaims, identity, body.perms)>>,
                          loaded, exists, reads \cup body.reads, live, count)
                EXCEPT !.old = OldTokenPrivs(order)]

\* the live scopes of the resources of the token's permissions
LiveScopes(permissions, c, identity, fresh) ==
    [r \in {permissions[k].ResourceSetID : k \in 1..Len(permissions)} |->
        CachedPrivileges(c, identity, r, fresh).Scopes]

NoLive == [r \in {} |-> <<>>]

\* lines 135-195: a stale token that holds the resource is compared with the
\* live privileges, and reset when nothing changed
AuditStale(db, identity, t, tokenClaims, loaded, resourceID, newID, fault, fresh, order, max) ==
    LET privs == ListPrivileges(db.cache, db.privileges, t)
        cmp == StaleCompare(tokenClaims.Permissions, privs, db.cache, identity, fresh)
        live == LiveScopes(tokenClaims.Permissions, db.cache, identity, fresh)
        count == Cardinality(privs)
        db1 == [db EXCEPT !.cache = CacheAfter(db.cache, identity, cmp.reads, fresh)]
        saved == [db1 EXCEPT !.tokens[t] = [loaded[1] EXCEPT !.Status = {}]]
    IN  IF fault = "stale_list"
        THEN AuditResult(InternalError, db, <<>>, <<>>, loaded, TRUE, {}, NoLive, 0)
        ELSE IF fault = "stale_cache" /\ cmp.reads # {}
        THEN AuditResult(InternalError, db, <<>>, <<>>, loaded, TRUE, cmp.reads, live, count)
        ELSE IF ~cmp.scopesChanged /\ ~cmp.permissionsChanged
        THEN IF fault = "save"
             THEN AuditResult(InternalError, db1, <<>>, <<>>, loaded, TRUE, cmp.reads,
                              live, count)
             ELSE AuditResult(NoError, saved, <<>>, <<>>, loaded, TRUE, cmp.reads,
                              live, count)
        ELSE AuditMint(db1, identity, tokenClaims, loaded, TRUE, resourceID, newID,
                       fault, fresh, order, max, cmp.reads, live, count)

\* the token strings that are not tokens of the token manager: one that
\* ParseToken rejects and one whose jti is not a UUID
BadTokenStrings == {"unparsable", "bad_jti"}

\* lines 80-94 of Audit and 515-529 of RegisterToken: the error of ParseToken
\* and of uuid.FromString(tokenClaims.Id)
ParseError(tokenString) ==
    IF tokenString = "unparsable" THEN BadParameterErrorFromString("tokenString")
    ELSE IF tokenString = "bad_jti" THEN BadParameterErrorFromString("jti")
    ELSE NoError

\* Audit with the token parsed before the resource is looked up
AuditUnparsed_ParseFirst(db, resourceID, tokenString) ==
    [AuditResult(IF ParseError(tokenString) # NoError THEN ParseError(tokenString)
                 ELSE BadParameterErrorFromString("resourceID"),
                 db, <<>>, <<>>, <<>>, FALSE, {}, NoLive, 0)
        EXCEPT !.tokenString = tokenString]

\* lines 64-94: Audit with a token string that is not a token: the resource
\* is looked up first, then the token string is parsed
AuditUnparsed(db, resourceID, tokenString) ==
    [AuditResult(IF resourceID \notin Resources
                 THEN BadParameterErrorFromString("resourceID")
                 ELSE ParseError(tokenString),
                 db, <<>>, <<>>, <<>>, FALSE, {}, NoLive, 0)
        EXCEPT !.tokenString = tokenString]

\* Audit(identity, tokenString, resourceID), the token string being the one
\* with jti t
AuditCall(db, cl, identity, t, resourceID, newID, fault, fresh, order, max) ==
    LET tokenClaims == cl[t]
        loaded == IF t \in DOMAIN db.tokens THEN <<db.tokens[t]>> ELSE <<>>
        exists == ResourceExistsInToken(loaded, tokenClaims.Permissions, resourceID)
        decision == AuditCheck(loaded, identity, exists)
    IN  IF resourceID \notin Resources
        THEN AuditResult(BadParameterErrorFromString("resourceID"), db, <<>>, <<>>, <<>>,
                         FALSE, {}, NoLive, 0)
        ELSE IF decision \in {"not_owner", "sufficient", "deprovisioned", "revoked"}
        THEN AuditResult(CheckError(decision), db, <<>>, <<>>, loaded, exists, {},
                         NoLive, 0)
        ELSE IF decision = "stale"
        THEN AuditStale(db, identity, t, tokenClaims, loaded, resourceID, newID, fault,
                        fresh, order, max)
        ELSE AuditMint(db, identity, tokenClaims, loaded, exists, resourceID, newID,
                       fault, fresh, order, max, {}, NoLive, 0)

\* ------------------------------------------------------ inputs of the calls

\* the jti of the next token string the token manager signs, 0 when the
\* bound on issued token strings is reached
NextTokenID(cl) ==
    IF TokenIDs \ DOMAIN cl = {} THEN 0
    ELSE CHOOSE n \in TokenIDs \ DOMAIN cl : \A m \in TokenIDs \ DOMAIN cl : n <= m

StaleFaults == {"stale_list", "stale_cache", "save"}
MintFaults == {"mint_cache", "mint_list", "mint_refresh", "generate", "sign",
               "register", "register_parse", "privilege_first", "privilege_last"}
RegisterFaults == {"create", "privilege_first", "privilege_last"}

\* what Audit decides for the token, before any fault
AuditDecision(db, cl, identity, t, resourceID) ==
    LET loaded == IF t \in DOMAIN db.tokens THEN <<db.tokens[t]>> ELSE <<>>
    IN  IF resourceID \notin Resources THEN "bad_parameter"
        ELSE AuditCheck(loaded, identity,
                 ResourceExistsInToken(loaded, cl[t].Permissions, resourceID))

\* the collaborator calls that may fail in this call
AuditFaults(db, cl, identity, t, resourceID) ==
    LET d == AuditDecision(db, cl, identity, t, resourceID)
    IN  IF d = "stale" THEN {"none"} \cup StaleFaults \cup MintFaults
        ELSE IF d = "mint" THEN {"none"} \cup MintFaults
        ELSE {"none"}

\* the outcomes of the recomputations of this call: scopes for the rows that
\* are missing or stale
FreshChoices(db, cl, identity, t, resourceID) ==
    LET cand == {resourceID}
                \cup {cl[t].Permissions[k].ResourceSetID : k \in 1..Len(cl[t].Permissions)}
                \cup {p.PrivilegeCacheID[2] : p \in {q \in db.privileges : q.TokenID = t}}
        need == IF AuditDecision(db, cl, identity, t, resourceID) \in {"stale", "mint"}
                THEN {r \in cand : \/ CacheID(identity, r) \notin DOMAIN db.cache
                                   \/ db.cache[CacheID(identity, r)].Stale}
                ELSE {}
    IN  {[r \in Resources |-> IF r \in need THEN f[r] ELSE <<"a">>] :
            f \in [need -> ScopeLists]}

\* the orders of the old privileges at the time the mint sorts them
AuditOrders(db, cl, identity, t, resourceID, fresh) ==
    LET d == AuditDecision(db, cl, identity, t, resourceID)
        loaded == IF t \in DOMAIN db.tokens THEN <<db.tokens[t]>> ELSE <<>>
        cmp == StaleCompare(cl[t].Permissions, ListPrivileges(db.cache, db.privileges, t),
                            db.cache, identity, fresh)
        db1 == IF d = "stale"
               THEN [db EXCEPT !.cache = CacheAfter(db.cache, identity, cmp.reads, fresh)]
               ELSE db
    IN  IF d \in {"stale", "mint"}
        THEN MintOrders(db1, identity, loaded, resourceID, fresh)
        ELSE {<<>>}

\* the permission lists of the token strings signed outside the engine
RegisterPermissions ==
    {<<>>, <<[ResourceSetID |-> "r1", Scopes |-> <<"a">>, Expiry |-> 1]>>}

TokenExpiries == {1}

\* the identities token strings are signed for outside Audit
RegisterIdentities == {"i1"}

\* the status values of the bulk updates
StatusInputs ==
    {{"STALE"}, {"REVOKED"}, {"LOGGED_OUT"}, {"DEPROVISIONED"},
     {"STALE", "REVOKED"}, {"STALE", "LOGGED_OUT"}, {"STALE", "DEPROVISIONED"},
     {"REVOKED", "DEPROVISIONED"}, Flags}

SeqOf(S) == CHOOSE s \in Perms(S) : TRUE

\* the privilege lists RegisterToken is called with: at most two rows of the
\* identity's privilege cache
RegisterPrivileges(c, identity) ==
    {SeqOf(S) : S \in {T \in SUBSET {id \in DOMAIN c : id[1] = identity} :
                          Cardinality(T) <= 2}}

\* --------------------------------------------------------------- the calls

LastCall(op, identity, token, resource, out) ==
    [op |-> op, identity |-> identity, token |-> token, resource |-> resource,
     err |-> out.err, minted |-> out.minted, loaded |-> out.loaded,
     resourceExistsInToken |-> out.resourceExistsInToken, reads |-> out.reads,
     live |-> out.live, count |-> out.count, partial |-> out.partial,
     old |-> out.old, tokenString |-> out.tokenString,
     tokenType |-> out.tokenType, privs |-> out.privs, exchange |-> out.exchange,
     saved |-> out.saved, status |-> out.status, cleanup |-> out.cleanup,
     external |-> out.external, scopes |-> out.scopes,
     transaction |-> out.transaction, raised |-> out.raised]

Plain(e) ==
    [err |-> e, minted |-> <<>>, loaded |-> <<>>, resourceExistsInToken |-> FALSE,
     reads |-> {}, live |-> NoLive, count |-> 0, partial |-> FALSE, old |-> <<>>,
     tokenString |-> "signed", tokenType |-> "none", privs |-> <<>>,
     exchange |-> NoExchange, saved |-> <<>>, status |-> {}, cleanup |-> NoCleanup,
     external |-> NoExternal, scopes |-> NoScopes, transaction |-> <<>>,
     raised |-> e]

Idle == LastCall("none", "none", 0, "none", Plain(NoError))

Init ==
    /\ tokens = [id \in {} |-> {}]
    /\ privileges = {}
    /\ cache = [id \in {"i1"} \X Resources |->
                   [Scopes |-> <<"a">>,
                    ExpiryTime |-> IF id[2] = "r1" THEN 1 ELSE 2,
                    Stale |-> FALSE]]
    /\ claims = [id \in {} |-> {}]
    /\ maxPerms \in 0..MaxPermissions
    /\ used = [registrations |-> 0, statusUpdates |-> 0, invalidations |-> 0,
               issued |-> 0, exchanges |-> 0, cleanups |-> 0, calls |-> 0]
    /\ last = Idle
    /\ identities = [i \in Identities |-> [Banned |-> FALSE, LastActive |-> FALSE]]
    /\ externalTokens = <<>>

\* the callers and resources of the calls of Audit with a bad token string
BadTokenCallers == {"i1"}
BadTokenResources == {"r1", UnknownResource}

\* Audit with a token string that is not a token of the token manager
AuditBadToken ==
    /\ last = Idle
    /\ \E identity \in BadTokenCallers, resourceID \in BadTokenResources,
          tokenString \in BadTokenStrings :
        \E out \in {AuditUnparsed(DB(tokens, privileges, cache), resourceID,
                                  tokenString)} :
          /\ tokens' = out.db.tokens
          /\ privileges' = out.db.privileges
          /\ cache' = out.db.cache
          /\ last' = LastCall("Audit", identity, 0, resourceID, out)
          /\ UNCHANGED <<claims, maxPerms, used, identities, externalTokens>>

Audit ==
    /\ last = Idle
    /\ \E identity \in Identities, t \in DOMAIN claims,
       resourceID \in Resources \cup {UnknownResource} :
      LET db == DB(tokens, privileges, cache) IN
      \E fault \in AuditFaults(db, claims, identity, t, resourceID),
         fresh \in FreshChoices(db, claims, identity, t, resourceID) :
        \E order \in AuditOrders(db, claims, identity, t, resourceID, fresh) :
          \E newID \in {NextTokenID(claims)} :
          \E out \in {AuditCall(db, claims, identity, t, resourceID, newID, fault,
                               fresh, order, maxPerms)} :
              /\ out.minted = <<>> \/ newID \in TokenIDs
              /\ tokens' = out.db.tokens
              /\ privileges' = out.db.privileges
              /\ cache' = out.db.cache
              /\ claims' = IF out.minted = <<>> THEN claims
                           ELSE [id \in DOMAIN claims \cup {newID} |->
                                    IF id = newID THEN out.newClaims[1] ELSE claims[id]]
              /\ last' = LastCall("Audit", identity, t, resourceID,
                             out)
              /\ UNCHANGED <<maxPerms, used, identities, externalTokens>>

\* a token string signed by the token manager outside Audit is registered
RegisterTokenCall ==
    /\ last = Idle
    /\ used.registrations < MaxRegistrations
    /\ used' = [used EXCEPT !.registrations = @ + 1]
    /\ \E identityID \in RegisterIdentities, perms \in RegisterPermissions,
       exp \in TokenExpiries, fault \in {"none"} \cup RegisterFaults :
      \E privs \in RegisterPrivileges(cache, identityID) :
        \E tokenType \in IF perms = <<>> /\ privs = <<>>
                         THEN {"access_token", "refresh_token"} ELSE {"rpt_token"} :
          \E newID \in {NextTokenID(claims)} :
          \E tokenClaims \in {[sub |-> identityID, Permissions |-> perms,
                                ExpiresAt |-> exp]} :
          \E out \in {RegisterToken(DB(tokens, privileges, cache), identityID, newID,
                                    tokenClaims, tokenType, privs, fault)} :
              /\ newID \in TokenIDs
              /\ tokens' = out.db.tokens
              /\ privileges' = out.db.privileges
              /\ claims' = [id \in DOMAIN claims \cup {newID} |->
                               IF id = newID THEN tokenClaims ELSE claims[id]]
              /\ last' = LastCall("RegisterToken", identityID, newID, "none",
                             [Plain(out.err) EXCEPT !.partial = out.partial,
                                                    !.tokenType = tokenType,
                                                    !.privs = privs])
              /\ UNCHANGED <<cache, maxPerms, identities, externalTokens>>

\* RegisterToken with a token string that is not a token of the token
\* manager: lines 515-529 return before the transaction
RegisterBadToken ==
    /\ last = Idle
    /\ \E identityID \in RegisterIdentities, tokenString \in BadTokenStrings :
        /\ last' = LastCall("RegisterToken", identityID, 0, "none",
                       [Plain(ParseError(tokenString))
                           EXCEPT !.tokenString = tokenString,
                                  !.tokenType = "access_token"])
        /\ UNCHANGED <<tokens, privileges, cache, claims, maxPerms, used, identities, externalTokens>>

\* the bulk update that reaches the tokens of every identity
SetStatusFlagsForIdentity_Everyone(tk, identityID, status) ==
    [id \in DOMAIN tk |-> [tk[id] EXCEPT !.Status = status]]

\* TokenRepository.SetStatusFlagsForIdentity(identityID, status)
SetStatusFlagsForIdentity(tk, identityID, status) ==
    [id \in DOMAIN tk |->
        IF tk[id].IdentityID = identityID THEN [tk[id] EXCEPT !.Status = status]
        ELSE tk[id]]

StatusFaults == {"none", "load", "list", "update"}

\* SetStatusForAllIdentityTokens(identityID, status): the identity is loaded,
\* its tokens are listed, and the status of its tokens is set in a transaction
SetStatusForAll(tk, idents, identityID, status, fault) ==
    IF identityID \notin DOMAIN idents THEN [err |-> NotFoundError, tokens |-> tk]
    ELSE IF fault \in {"load", "list"} THEN [err |-> CollaboratorError, tokens |-> tk]
    ELSE IF fault = "update"
    THEN [err |-> TransactionError(CollaboratorError), tokens |-> tk]
    ELSE [err |-> NoError, tokens |-> SetStatusFlagsForIdentity(tk, identityID, status)]

\* the bulk updates that are counted are those that were made
SetStatusForAllIdentityTokens ==
    /\ last = Idle
    /\ used.statusUpdates < MaxStatusUpdates
    /\ \E identityID \in {tokens[id].IdentityID : id \in DOMAIN tokens},
          status \in StatusInputs, fault \in StatusFaults :
        \E out \in {SetStatusForAll(tokens, identities, identityID, status, fault)} :
          /\ tokens' = out.tokens
          /\ used' = IF out.err = NoError
                     THEN [used EXCEPT !.statusUpdates = @ + 1] ELSE used
          /\ last' = LastCall("SetStatusForAllIdentityTokens", identityID, 0, "none",
                         [Plain(out.err) EXCEPT !.status = status])
          /\ UNCHANGED <<privileges, cache, claims, maxPerms, identities, externalTokens>>

\* the privileges of an identity on a resource change: the privilege cache
\* marks its row stale
InvalidatePrivilege ==
    /\ last = Idle
    /\ used.invalidations < MaxInvalidations
    /\ used' = [used EXCEPT !.invalidations = @ + 1]
    /\ \E id \in DOMAIN cache :
      /\ ~cache[id].Stale
      /\ cache' = [cache EXCEPT ![id].Stale = TRUE]
      /\ UNCHANGED <<tokens, privileges, claims, maxPerms, last, identities, externalTokens>>

\* the caller takes the result of the call
Return ==
    /\ last # Idle
    /\ last' = Idle
    /\ UNCHANGED <<tokens, privileges, cache, claims, maxPerms, used, identities, externalTokens>>

Next ==
    \/ Audit
    \/ AuditBadToken
    \/ RegisterTokenCall
    \/ RegisterBadToken
    \/ SetStatusForAllIdentityTokens
    \/ InvalidatePrivilege
    \/ Return

Spec == Init /\ [][Next]_vars

\* ------------------------------------------------------------ ValidateToken

\* claims["transient"] is present and true
Transient(tokenClaims) ==
    "transient" \in DOMAIN tokenClaims /\ tokenClaims.transient

\* IdentityRepository.TouchLastActive(identityID)
TouchLastActive(idents, identityID) ==
    [i \in DOMAIN idents |->
        IF i = identityID THEN [idents[i] EXCEPT !.LastActive = TRUE] ELSE idents[i]]

\* the result of ValidateToken: the error, the identity table, and the number
\* of calls of TouchLastActive
ValidateResult(e, idents, touches) ==
    [err |-> e, identities |-> idents, touches |-> touches]

\* ValidateToken with a STALE record taken for a valid one
ValidateToken_StaleAccepted(tk, idents, cl, t, tokenString, fault) ==
    IF tokenString = "bad_jti"
    THEN ValidateResult(BadParameterErrorFromString("token"), idents, 0)
    ELSE IF fault = "load" THEN ValidateResult(CollaboratorError, idents, 0)
    ELSE IF t \notin DOMAIN tk THEN ValidateResult(NotFoundError, idents, 0)
    ELSE IF tk[t].Status \ {"STALE"} # {} THEN ValidateResult(UnauthorizedError, idents, 0)
    ELSE IF Transient(cl[t]) THEN ValidateResult(NoError, idents, 0)
    ELSE IF "sub" \notin DOMAIN cl[t]
    THEN ValidateResult(Panic("type_assertion"), idents, 0)
    ELSE IF fault = "touch" THEN ValidateResult(InternalError, idents, 1)
    ELSE ValidateResult(NoError, TouchLastActive(idents, cl[t].sub), 1)

\* ValidateToken that does not read the transient claim
ValidateToken_TransientIgnored(tk, idents, cl, t, tokenString, fault) ==
    IF tokenString = "bad_jti"
    THEN ValidateResult(BadParameterErrorFromString("token"), idents, 0)
    ELSE IF fault = "load" THEN ValidateResult(CollaboratorError, idents, 0)
    ELSE IF t \notin DOMAIN tk THEN ValidateResult(NotFoundError, idents, 0)
    ELSE IF ~Valid(tk[t]) THEN ValidateResult(UnauthorizedError, idents, 0)
    ELSE IF "sub" \notin DOMAIN cl[t]
    THEN ValidateResult(Panic("type_assertion"), idents, 0)
    ELSE IF fault = "touch" THEN ValidateResult(InternalError, idents, 1)
    ELSE ValidateResult(NoError, TouchLastActive(idents, cl[t].sub), 1)

\* ValidateToken(accessToken), the token being the one with jti t, or one
\* whose jti is not a UUID
ValidateToken(tk, idents, cl, t, tokenString, fault) ==
    IF tokenString = "bad_jti"
    THEN ValidateResult(BadParameterErrorFromString("token"), idents, 0)
    ELSE IF fault = "load" THEN ValidateResult(CollaboratorError, idents, 0)
    ELSE IF t \notin DOMAIN tk THEN ValidateResult(NotFoundError, idents, 0)
    ELSE IF ~Valid(tk[t]) THEN ValidateResult(UnauthorizedError, idents, 0)
    ELSE IF Transient(cl[t]) THEN ValidateResult(NoError, idents, 0)
    ELSE IF "sub" \notin DOMAIN cl[t]
    THEN ValidateResult(Panic("type_assertion"), idents, 0)
    ELSE IF fault = "touch" THEN ValidateResult(InternalError, idents, 1)
    ELSE ValidateResult(NoError, TouchLastActive(idents, cl[t].sub), 1)

ValidateFaults == {"none", "load", "touch"}

\* the sub claim of the token with jti t, "none" when it has none
SubOf(cl, t) ==
    IF t \in DOMAIN cl /\ "sub" \in DOMAIN cl[t] THEN cl[t].sub ELSE "none"

ValidateTokenCall ==
    /\ last = Idle
    /\ \E t \in DOMAIN claims \cup {0}, fault \in ValidateFaults :
        \E tokenString \in IF t = 0 THEN {"bad_jti"} ELSE {"signed"} :
        \E out \in {ValidateToken(tokens, identities, claims, t, tokenString, fault)} :
          /\ identities' = out.identities
          /\ last' = LastCall("ValidateToken", SubOf(claims, t), t, "none",
                         [Plain(out.err) EXCEPT !.tokenString = tokenString,
                                                !.count = out.touches])
          /\ UNCHANGED <<tokens, privileges, cache, claims, maxPerms, used,
                         externalTokens>>

\* ----------------------------------------- token strings signed elsewhere

\* an identifier of an API client: no identity row has it
ClientID == "client"

\* the permissions that go with a list of privilege cache rows
PermissionsOf(c, privs) ==
    [k \in 1..Len(privs) |->
        [ResourceSetID |-> privs[k][2],
         Scopes |-> c[privs[k]].Scopes,
         Expiry |-> c[privs[k]].ExpiryTime]]

\* the refresh token of a later login of i1
LoginToken ==
    [claims |-> [sub |-> "i1", Permissions |-> <<>>, ExpiresAt |-> FreshExpiry],
     identityID |-> "i1", tokenType |-> "refresh_token", privs |-> <<>>,
     registered |-> TRUE]

\* the token strings signed at login or for a client, and how they are
\* registered: a refresh token of i1, one without a sub claim, a transient
\* one without a sub claim, one of an API client, one that is not registered,
\* RPTs of i1 with one and two privileges, and a token of i2; the token
\* strings after the first are refresh tokens of a later login of i1
IssuedTokens(c, issued) ==
    IF issued > 0 THEN {LoginToken} ELSE
    {[claims |-> [sub |-> "i1", Permissions |-> <<>>, ExpiresAt |-> 1],
      identityID |-> "i1", tokenType |-> "refresh_token", privs |-> <<>>,
      registered |-> TRUE],
     [claims |-> [Permissions |-> <<>>, ExpiresAt |-> 1],
      identityID |-> "i1", tokenType |-> "refresh_token", privs |-> <<>>,
      registered |-> TRUE],
     [claims |-> [Permissions |-> <<>>, ExpiresAt |-> 1, transient |-> TRUE],
      identityID |-> "i1", tokenType |-> "refresh_token", privs |-> <<>>,
      registered |-> TRUE],
     [claims |-> [sub |-> ClientID, Permissions |-> <<>>, ExpiresAt |-> 1],
      identityID |-> ClientID, tokenType |-> "refresh_token", privs |-> <<>>,
      registered |-> TRUE],
     [claims |-> [sub |-> "i1", Permissions |-> <<>>, ExpiresAt |-> 1],
      identityID |-> "i1", tokenType |-> "refresh_token", privs |-> <<>>,
      registered |-> FALSE],
     [claims |-> [sub |-> "i2", Permissions |-> <<>>, ExpiresAt |-> 1],
      identityID |-> "i2", tokenType |-> "access_token", privs |-> <<>>,
      registered |-> TRUE]}
    \cup
    {[claims |-> [sub |-> "i1", Permissions |-> PermissionsOf(c, privs),
                  ExpiresAt |-> 1],
      identityID |-> "i1", tokenType |-> "rpt_token", privs |-> privs,
      registered |-> TRUE] :
        privs \in {<<CacheID("i1", "r1")>>,
                   <<CacheID("i1", "r1"), CacheID("i1", "r2")>>}}

\* a token string is signed outside the engine and registered
IssueToken ==
    /\ last = Idle
    /\ used.issued < MaxIssued
    /\ used' = [used EXCEPT !.issued = @ + 1]
    /\ \E tkn \in IssuedTokens(cache, used.issued) :
        \E newID \in {NextTokenID(claims)} :
        \E out \in {RegisterToken(DB(tokens, privileges, cache), tkn.identityID, newID,
                                  tkn.claims, tkn.tokenType, tkn.privs, "none")} :
          /\ newID \in TokenIDs
          /\ tokens' = IF tkn.registered THEN out.db.tokens ELSE tokens
          /\ privileges' = IF tkn.registered THEN out.db.privileges ELSE privileges
          /\ claims' = [id \in DOMAIN claims \cup {newID} |->
                           IF id = newID THEN tkn.claims ELSE claims[id]]
          /\ UNCHANGED <<cache, maxPerms, last, identities, externalTokens>>

\* the user of an identity is banned
BanUser ==
    /\ last = Idle
    /\ \E i \in {"i1"} :
        /\ ~identities[i].Banned
        /\ identities' = [identities EXCEPT ![i].Banned = TRUE]
    /\ UNCHANGED <<tokens, privileges, cache, claims, maxPerms, used, last,
                   externalTokens>>


\* ----------------------------------------------------- ExchangeRefreshToken

\* what a recomputation of the scopes yields during an exchange
ExchangeFresh == [r \in Resources |-> <<"a", "b">>]

\* TokenManager.GenerateUserTokenUsingRefreshToken(refreshToken, identity,
\* permissions): the claims of the new access and refresh token strings
GenerateUserTokenUsingRefreshToken(refreshClaims, permissions) ==
    [AccessToken |-> [sub |-> refreshClaims.sub, Permissions |-> permissions,
                      ExpiresAt |-> FreshExpiry],
     RefreshToken |-> [sub |-> refreshClaims.sub, Permissions |-> <<>>,
                       ExpiresAt |-> FreshExpiry]]

\* the loop that records no token privilege for a privilege that is not stale
RECURSIVE ExchangeMigrate_NoTokenPriv(_, _, _, _, _, _, _, _)
ExchangeMigrate_NoTokenPriv(old, k, c, identity, fresh, max, stale, acc) ==
    IF k > Len(old) \/ Len(acc.perms) >= max THEN acc
    ELSE IF stale \/ old[k].Stale
    THEN LET privilegeCache == CachedPrivileges(c, identity, old[k].ResourceID, fresh)
         IN  ExchangeMigrate_NoTokenPriv(old, k + 1, c, identity, fresh, max, stale,
                 [perms |-> Append(acc.perms,
                                [ResourceSetID |-> old[k].ResourceID,
                                 Scopes |-> privilegeCache.Scopes,
                                 Expiry |-> privilegeCache.ExpiryTime]),
                  tokenPrivs |-> Append(acc.tokenPrivs, old[k].PrivilegeCacheID),
                  reads |-> acc.reads \cup {old[k].ResourceID}])
    ELSE ExchangeMigrate_NoTokenPriv(old, k + 1, c, identity, fresh, max, stale,
             [perms |-> Append(acc.perms,
                            [ResourceSetID |-> old[k].ResourceID,
                             Scopes |-> old[k].Scopes,
                             Expiry |-> old[k].ExpiryTime]),
              tokenPrivs |-> acc.tokenPrivs,
              reads |-> acc.reads])

\* lines 436-472: the loop over the privileges of the RPT that is replaced
RECURSIVE ExchangeMigrate(_, _, _, _, _, _, _, _)
ExchangeMigrate(old, k, c, identity, fresh, max, stale, acc) ==
    IF k > Len(old) \/ Len(acc.perms) >= max THEN acc
    ELSE IF stale \/ old[k].Stale
    THEN LET privilegeCache == CachedPrivileges(c, identity, old[k].ResourceID, fresh)
         IN  ExchangeMigrate(old, k + 1, c, identity, fresh, max, stale,
                 [perms |-> Append(acc.perms,
                                [ResourceSetID |-> old[k].ResourceID,
                                 Scopes |-> privilegeCache.Scopes,
                                 Expiry |-> privilegeCache.ExpiryTime]),
                  tokenPrivs |-> Append(acc.tokenPrivs, old[k].PrivilegeCacheID),
                  reads |-> acc.reads \cup {old[k].ResourceID}])
    ELSE ExchangeMigrate(old, k + 1, c, identity, fresh, max, stale,
             [perms |-> Append(acc.perms,
                            [ResourceSetID |-> old[k].ResourceID,
                             Scopes |-> old[k].Scopes,
                             Expiry |-> old[k].ExpiryTime]),
              tokenPrivs |-> Append(acc.tokenPrivs, old[k].PrivilegeCacheID),
              reads |-> acc.reads])

\* the record of the RPT handed to the exchange, <<>> when there is none
ExchangeLoaded(db, identity, rpt, rptString) ==
    IF identity # NilIdentity /\ rptString = "signed" /\ rpt \in DOMAIN db.tokens
    THEN <<db.tokens[rpt]>>
    ELSE <<>>

\* the orders in which the exchange may walk the privileges of the RPT
ExchangeOrders(db, identity, rpt, rptString) ==
    IF ExchangeLoaded(db, identity, rpt, rptString) = <<>> THEN {<<>>}
    ELSE SortedByExpiry(ListPrivileges(db.cache, db.privileges, rpt))

ExchangeFaults ==
    {"none", "validate", "list", "cache", "generate", "parse", "create",
     "privilege_first", "privilege_last", "refresh_create", "convert"}

\* the outcomes of IdentityRepository.LoadWithUser(sub): an identity that
\* does not exist is never found
Lookups(idents, sub) ==
    IF sub \in DOMAIN idents THEN {"found", "unauthorized", "error"}
    ELSE {"unauthorized", "error"}

BodyResult(e, db, generated, acc, pair, failed) ==
    [err |-> e, db |-> db, generated |-> generated, perms |-> acc.perms,
     tokenPrivs |-> acc.tokenPrivs, pair |-> pair, failed |-> failed]

\* the checks of the exchange with the status looked at before the owner
ExchangeCheck_StatusFirst(loaded, identity) ==
    IF loaded = <<>> THEN "continue"
    ELSE IF HasStatus(loaded[1], "DEPROVISIONED") THEN "deprovisioned"
    ELSE IF HasStatus(loaded[1], "REVOKED") \/ HasStatus(loaded[1], "LOGGED_OUT")
         THEN "revoked"
    ELSE IF loaded[1].IdentityID # identity THEN "not_owner"
    ELSE "continue"

\* lines 404-418: the ownership and status checks of the exchange on the
\* loaded record of the RPT, in the order of the code
ExchangeCheck(loaded, identity) ==
    IF loaded = <<>> THEN "continue"
    ELSE IF loaded[1].IdentityID # identity THEN "not_owner"
    ELSE IF HasStatus(loaded[1], "DEPROVISIONED") THEN "deprovisioned"
    ELSE IF HasStatus(loaded[1], "REVOKED") \/ HasStatus(loaded[1], "LOGGED_OUT")
         THEN "revoked"
    ELSE "continue"

\* lines 377-502: the function ExchangeRefreshToken runs in its transaction
ExchangeBody(db, identity, refreshClaims, rpt, rptString, fault, fresh, max, newIDs, order) ==
    LET loaded == ExchangeLoaded(db, identity, rpt, rptString)
        acc0 == [perms |-> <<>>, tokenPrivs |-> <<>>, reads |-> {}]
        acc == IF loaded = <<>> THEN acc0
               ELSE ExchangeMigrate(order, 1, db.cache, identity, fresh, max,
                                    HasStatus(loaded[1], "STALE"), acc0)
        db1 == [db EXCEPT !.cache = CacheAfter(db.cache, identity, acc.reads, fresh)]
        generatedToken == GenerateUserTokenUsingRefreshToken(refreshClaims, acc.perms)
        reg1 == RegisterToken(db1, identity, newIDs[1], generatedToken.AccessToken,
                    IF Len(acc.perms) > 0 THEN "rpt_token" ELSE "access_token",
                    IF Len(acc.perms) > 0 THEN acc.tokenPrivs ELSE <<>>,
                    IF fault \in {"parse", "create", "privilege_first", "privilege_last"}
                    THEN fault ELSE "none")
        reg2 == RegisterToken(reg1.db, identity, newIDs[2], generatedToken.RefreshToken,
                    "refresh_token", <<>>,
                    IF fault = "refresh_create" THEN "create" ELSE "none")
    IN  IF identity # NilIdentity /\ rptString \in BadTokenStrings
        THEN BodyResult(UnauthorizedError, db, FALSE, acc0, <<>>, "none")
        ELSE IF ExchangeCheck(loaded, identity) # "continue"
        THEN BodyResult(CheckError(ExchangeCheck(loaded, identity)),
                        db, FALSE, acc0, <<>>, "none")
        ELSE IF loaded # <<>> /\ fault = "list"
        THEN BodyResult(InternalError, db, FALSE, acc0, <<>>, "list")
        ELSE IF fault = "cache" /\ acc.reads # {}
        THEN BodyResult(InternalError, db, FALSE, acc0, <<>>, "cache")
        ELSE IF fault = "generate"
        THEN BodyResult(CollaboratorError, db1, TRUE, acc, <<>>, "generate")
        ELSE IF identity = NilIdentity
        THEN BodyResult(Panic("nil_pointer"), db1, TRUE, acc, <<>>, "none")
        ELSE IF reg1.err # NoError
        THEN BodyResult(InternalError, reg1.db, TRUE, acc, <<>>, fault)
        ELSE IF reg2.err # NoError
        THEN BodyResult(InternalError, reg2.db, TRUE, acc, <<>>, "refresh_create")
        ELSE BodyResult(NoError, reg2.db, TRUE, acc, newIDs, "none")

ExchangeResult(e, db, idents, x) ==
    [err |-> e, db |-> db, identities |-> idents, exchange |-> x]

\* lines 348-359: the identity the exchange goes on with
ExchangeIdentity(idents, sub, lookup) ==
    IF lookup = "found" /\ sub \in DOMAIN idents THEN sub ELSE NilIdentity

\* the exchange with the function run outside a transaction
ExchangeRefreshToken_NoTransaction(db, idents, cl, max, t, refreshString, rpt, rptString, lookup, fault, fresh, newIDs, order) ==
    LET v == ValidateToken(db.tokens, idents, cl, t, refreshString,
                           IF fault = "validate" THEN "load" ELSE "none")
        sub == SubOf(cl, t)
        identity == ExchangeIdentity(idents, sub, lookup)
        body == ExchangeBody(db, identity, cl[t], rpt, rptString, fault, fresh, max,
                             newIDs, order)
        after == body.db
        x == [NoExchange EXCEPT !.lookup = lookup]
        y == [x EXCEPT !.identity = identity, !.generated = body.generated,
                       !.rpt = IF identity = NilIdentity THEN 0 ELSE rpt,
                       !.rptString = IF identity = NilIdentity THEN "" ELSE rptString,
                       !.permissions = body.perms, !.tokenPrivs = body.tokenPrivs,
                       !.pair = body.pair, !.failed = body.failed]
    IN  IF refreshString = "unparsable"
        THEN ExchangeResult(UnauthorizedError, db, idents, NoExchange)
        ELSE IF v.err.type = "panic" THEN ExchangeResult(v.err, db, idents, NoExchange)
        ELSE IF v.err # NoError
        THEN ExchangeResult(UnauthorizedError, db, idents,
                 [NoExchange EXCEPT !.failed =
                      IF v.err = CollaboratorError THEN "validate" ELSE "none"])
        ELSE IF sub = "none"
        THEN ExchangeResult(UnauthorizedError, db, v.identities, NoExchange)
        ELSE IF lookup = "unauthorized"
        THEN ExchangeResult(UnauthorizedError, db, v.identities, x)
        ELSE IF identity # NilIdentity /\ idents[identity].Banned
        THEN ExchangeResult(UnauthorizedError, db, v.identities,
                            [x EXCEPT !.identity = identity])
        ELSE IF body.err # NoError
        THEN ExchangeResult(TransactionError(body.err), after, v.identities, y)
        ELSE IF fault = "convert"
        THEN ExchangeResult(CollaboratorError, after, v.identities,
                            [y EXCEPT !.failed = "convert"])
        ELSE ExchangeResult(NoError, after, v.identities, y)

\* ExchangeRefreshToken(refreshToken, rptToken): the refresh token is the one
\* with jti t or a string that cannot be parsed; the RPT is none (""), the
\* token with jti rpt, or a string that is not a token
ExchangeRefreshToken(db, idents, cl, max, t, refreshString, rpt, rptString, lookup, fault, fresh, newIDs, order) ==
    LET v == ValidateToken(db.tokens, idents, cl, t, refreshString,
                           IF fault = "validate" THEN "load" ELSE "none")
        sub == SubOf(cl, t)
        identity == ExchangeIdentity(idents, sub, lookup)
        body == ExchangeBody(db, identity, cl[t], rpt, rptString, fault, fresh, max,
                             newIDs, order)
        after == ExecuteInTransaction(db, body)
        x == [NoExchange EXCEPT !.lookup = lookup]
        y == [x EXCEPT !.identity = identity, !.generated = body.generated,
                       !.rpt = IF identity = NilIdentity THEN 0 ELSE rpt,
                       !.rptString = IF identity = NilIdentity THEN "" ELSE rptString,
                       !.permissions = body.perms, !.tokenPrivs = body.tokenPrivs,
                       !.pair = body.pair, !.failed = body.failed]
    IN  IF refreshString = "unparsable"
        THEN ExchangeResult(UnauthorizedError, db, idents, NoExchange)
        ELSE IF v.err.type = "panic" THEN ExchangeResult(v.err, db, idents, NoExchange)
        ELSE IF v.err # NoError
        THEN ExchangeResult(UnauthorizedError, db, idents,
                 [NoExchange EXCEPT !.failed =
                      IF v.err = CollaboratorError THEN "validate" ELSE "none"])
        ELSE IF sub = "none"
        THEN ExchangeResult(UnauthorizedError, db, v.identities, NoExchange)
        ELSE IF lookup = "unauthorized"
        THEN ExchangeResult(UnauthorizedError, db, v.identities, x)
        ELSE IF identity # NilIdentity /\ idents[identity].Banned
        THEN ExchangeResult(UnauthorizedError, db, v.identities,
                            [x EXCEPT !.identity = identity])
        ELSE IF body.err # NoError
        THEN ExchangeResult(TransactionError(body.err), after, v.identities, y)
        ELSE IF fault = "convert"
        THEN ExchangeResult(CollaboratorError, after, v.identities,
                            [y EXCEPT !.failed = "convert"])
        ELSE ExchangeResult(NoError, after, v.identities, y)

ExchangeTokenIDs == 1..MaxExchangeTokens

\* the jti of the two token strings the token manager generates next
RECURSIVE NewTokenIDs(_, _)
NewTokenIDs(cl, n) ==
    IF n = 0 \/ ExchangeTokenIDs \ DOMAIN cl = {} THEN <<>>
    ELSE LET id == CHOOSE i \in ExchangeTokenIDs \ DOMAIN cl :
                       \A j \in ExchangeTokenIDs \ DOMAIN cl : i <= j
         IN  <<id>> \o NewTokenIDs([j \in DOMAIN cl \cup {id} |-> {}], n - 1)

\* the claims of the token strings after an exchange registered its pair
ClaimsAfter(cl, refreshClaims, x) ==
    IF x.pair = <<>> THEN cl
    ELSE LET generatedToken ==
                 GenerateUserTokenUsingRefreshToken(refreshClaims, x.permissions)
         IN  [id \in DOMAIN cl \cup Range(x.pair) |->
                 IF id = x.pair[1] THEN generatedToken.AccessToken
                 ELSE IF id = x.pair[2] THEN generatedToken.RefreshToken
                 ELSE cl[id]]

ExchangeRefreshTokenCall ==
    /\ last = Idle
    /\ used.exchanges < MaxExchanges
    /\ used' = [used EXCEPT !.exchanges = @ + 1]
    /\ \E t \in DOMAIN claims \cup {0}, rpt \in DOMAIN claims \cup {0},
          fault \in ExchangeFaults :
        \E rptString \in IF rpt # 0 THEN {"signed"} ELSE {""} \cup BadTokenStrings :
        \E lookup \in Lookups(identities, SubOf(claims, t)) :
        \E refreshString \in IF t = 0 THEN {"unparsable"} ELSE {"signed"} :
        \E identity \in {ExchangeIdentity(identities, SubOf(claims, t), lookup)} :
        \E newIDs \in {NewTokenIDs(claims, 2)} :
        \E order \in ExchangeOrders(DB(tokens, privileges, cache), identity, rpt, rptString) :
        \E out \in {ExchangeRefreshToken(DB(tokens, privileges, cache), identities, claims,
                        maxPerms, t, refreshString, rpt, rptString, lookup, fault,
                        ExchangeFresh, newIDs, order)} :
          /\ Len(newIDs) = 2
          /\ tokens' = out.db.tokens
          /\ privileges' = out.db.privileges
          /\ cache' = out.db.cache
          /\ identities' = out.identities
          /\ claims' = IF t = 0 THEN claims ELSE ClaimsAfter(claims, claims[t], out.exchange)
          /\ last' = LastCall("ExchangeRefreshToken", SubOf(claims, t), t, "none",
                         [Plain(out.err) EXCEPT !.tokenString = refreshString,
                                                !.exchange = out.exchange])
          /\ UNCHANGED <<maxPerms, externalTokens>>

\* the runs of an exchange: token strings are issued, statuses and
\* privileges change, a user is banned, and then a refresh token is exchanged
NextExchange ==
    \/ used.exchanges = 0 /\ IssueToken
    \/ used.exchanges = 0 /\ BanUser
    \/ used.exchanges = 0 /\ SetStatusForAllIdentityTokens
    \/ used.exchanges = 0 /\ InvalidatePrivilege
    \/ ExchangeRefreshTokenCall
    \/ ValidateTokenCall
    \/ Return

SpecExchange == Init /\ [][NextExchange]_vars

\* ----------------------------------------------------- CleanupExpiredTokens

\* the cleanup that also removes the tokens that expire at the cutoff
CleanupExpiredTokens_Inclusive(tk, now, retentionHours) ==
    [id \in {i \in DOMAIN tk : ~(tk[i].ExpiryTime <= now - retentionHours)} |-> tk[id]]

\* the cleanup as a soft delete: the expired tokens are kept and flagged
CleanupExpiredTokens_SoftDelete(tk, now, retentionHours) ==
    [id \in DOMAIN tk |->
        IF tk[id].ExpiryTime < now - retentionHours
        THEN [tk[id] EXCEPT !.Status = @ \cup {"REVOKED"}] ELSE tk[id]]

\* the cleanup that removes one expired token at a time
CleanupExpiredTokens_OneAtATime(tk, now, retentionHours) ==
    LET expired == {i \in DOMAIN tk : tk[i].ExpiryTime < now - retentionHours}
    IN  IF expired = {} THEN tk
        ELSE [id \in DOMAIN tk \ {CHOOSE i \in expired : \A j \in expired : i <= j} |->
                 tk[id]]

\* TokenRepository.CleanupExpiredTokens(retentionHours) at the time now: the
\* tokens whose expiry time is older than now minus the retention are deleted
CleanupExpiredTokens(tk, now, retentionHours) ==
    [id \in {i \in DOMAIN tk : ~(tk[i].ExpiryTime < now - retentionHours)} |-> tk[id]]

CleanupFaults == {"none", "cleanup"}

\* tokenServiceImpl.CleanupExpiredTokens: the cleanup of the repository in a
\* transaction, with the retention of the configuration
CleanupService(tk, now, retentionHours, fault) ==
    LET body == [err |-> IF fault = "cleanup" THEN CollaboratorError ELSE NoError,
                 db |-> CleanupExpiredTokens(tk, now, retentionHours)]
    IN  [err |-> TransactionError(body.err), tokens |-> ExecuteInTransaction(tk, body)]

Times == 1..MaxTime
Retentions == 0..MaxRetentionHours

CleanupExpiredTokensCall ==
    /\ last = Idle
    /\ used.cleanups < MaxCleanups
    /\ used' = [used EXCEPT !.cleanups = @ + 1]
    /\ \E now \in Times, retentionHours \in Retentions, fault \in CleanupFaults :
        \E out \in {CleanupService(tokens, now, retentionHours, fault)} :
          /\ tokens' = out.tokens
          /\ last' = LastCall("CleanupExpiredTokens", "none", 0, "none",
                         [Plain(out.err) EXCEPT
                             !.cleanup = [now |-> now, retentionHours |-> retentionHours]])
          /\ UNCHANGED <<privileges, cache, claims, maxPerms, identities, externalTokens>>

\* ----------------------------------------------- Audit with a failing load

\* Audit when TokenRepository.Load answers an error: loadedToken is nil and
\* the call goes on as for a token without a record.  The tables as the call
\* sees them, without the record of t
HideRecord(db, t) ==
    [db EXCEPT !.tokens = [id \in DOMAIN db.tokens \ {t} |-> db.tokens[id]]]

\* the token table after the call: what the call wrote, and the record it
\* could not load
RestoreRecord(tk, before, t) ==
    [id \in DOMAIN tk \cup {t} |-> IF id \in DOMAIN tk THEN tk[id] ELSE before[id]]

AuditLoadFails ==
    /\ last = Idle
    /\ \E identity \in Identities, t \in DOMAIN tokens, resourceID \in Resources :
        \E seen \in {HideRecord(DB(tokens, privileges, cache), t)} :
        \E fresh \in FreshChoices(seen, claims, identity, t, resourceID) :
        \E order \in AuditOrders(seen, claims, identity, t, resourceID, fresh) :
        \E newID \in {NextTokenID(claims)} :
        \E out \in {AuditCall(seen, claims, identity, t, resourceID, newID, "none",
                              fresh, order, maxPerms)} :
        \E after \in {RestoreRecord(out.db.tokens, tokens, t)} :
          /\ out.minted = <<>> \/ newID \in TokenIDs
          /\ tokens' = after
          /\ privileges' = out.db.privileges
          /\ cache' = out.db.cache
          /\ claims' = IF out.minted = <<>> THEN claims
                       ELSE [id \in DOMAIN claims \cup {newID} |->
                                IF id = newID THEN out.newClaims[1] ELSE claims[id]]
          /\ last' = [LastCall("Audit", identity, t, resourceID, out)
                         EXCEPT !.tokenString = "load_error"]
          /\ UNCHANGED <<maxPerms, used, identities, externalTokens>>

\* the caller takes the result of a call that is counted
ReturnCounted ==
    /\ last # Idle
    /\ last' = Idle
    /\ used' = [used EXCEPT !.calls =
                    IF last.op = "SetStatusForAllIdentityTokens" THEN @ ELSE @ + 1]
    /\ UNCHANGED <<tokens, privileges, cache, claims, maxPerms, identities,
                   externalTokens>>

\* the calls of the service in one run: token strings are issued, statuses
\* and privileges change, and then tokens are audited, registered, exchanged,
\* validated and cleaned up
NextLifecycle ==
    \/ used.calls = 0 /\ IssueToken
    \/ used.calls = 0 /\ SetStatusForAllIdentityTokens
    \/ used.calls = 0 /\ InvalidatePrivilege
    \/ used.calls < MaxCalls /\ Audit
    \/ used.calls < MaxCalls /\ AuditLoadFails
    \/ used.calls < MaxCalls /\ RegisterTokenCall
    \/ used.calls < MaxCalls /\ ExchangeRefreshTokenCall
    \/ used.calls < MaxCalls /\ ValidateTokenCall
    \/ used.calls < MaxCalls /\ CleanupExpiredTokensCall
    \/ ReturnCounted

SpecLifecycle == Init /\ [][NextLifecycle]_vars

\* ---------------------------------------------------- RetrieveExternalToken

\* the linking providers a resource URL resolves to
Providers == {"github", "openshift"}

\* the token strings the providers hand out
ExternalTokenStrings == {"x", "y"}

\* the username the provider reports for a token
ProfileUsername == "profile"

\* ExternalTokenRepository.Create: the table in the order of creation
CreateExternal(ext, providerID, identityID, token) ==
    Append(ext, [ID |-> Len(ext) + 1, ProviderID |-> providerID,
                 IdentityID |-> identityID, Token |-> token, Username |-> "user"])

Reverse(s) == [k \in 1..Len(s) |-> s[Len(s) + 1 - k]]

\* the rows of a provider and an identity, in the order of creation
RowsOf(ext, providerID, identityID) ==
    SelectSeq(ext, LAMBDA row : row.ProviderID = providerID /\ row.IdentityID = identityID)

\* LoadByProviderIDAndIdentityID that lists the oldest row first
LoadByProviderIDAndIdentityID_OldestFirst(ext, providerID, identityID) ==
    RowsOf(ext, providerID, identityID)

\* ExternalTokenRepository.LoadByProviderIDAndIdentityID: the rows of the
\* provider and the identity, the latest first
LoadByProviderIDAndIdentityID(ext, providerID, identityID) ==
    Reverse(RowsOf(ext, providerID, identityID))

\* ExternalTokenRepository.Save(externalToken)
SaveExternal(ext, row) ==
    [k \in 1..Len(ext) |-> IF ext[k].ID = row.ID THEN row ELSE ext[k]]

ExternalFaults == {"none", "identity", "provider", "exists", "load", "profile", "save"}

\* what a call of RetrieveExternalToken returned besides its error: the
\* app.ExternalToken, the link hint, the step that failed, and the table
ExternalResult(e, token, hint, failed, ext) ==
    [err |-> e, token |-> token, hint |-> hint, failed |-> failed, externalTokens |-> ext]

\* RetrieveExternalToken(forResource, forcePull) for a user, the resource
\* being the URL of a provider or ""
RetrieveExternalToken(ext, idents, identityID, forResource, forcePull, fault) ==
    LET loaded == LoadByProviderIDAndIdentityID(ext, forResource, identityID)
        pulled == [loaded[1] EXCEPT !.Username = ProfileUsername]
        externalToken == IF forcePull THEN pulled ELSE loaded[1]
        appResponse == [AccessToken |-> externalToken.Token, TokenType |-> "Bearer",
                        Username |-> externalToken.Username,
                        ProviderAPIURL |-> forResource]
    IN  IF forResource = ""
        THEN ExternalResult(BadParameterErrorFromString("for"), <<>>, "", "none", ext)
        ELSE IF fault = "identity"
        THEN ExternalResult(CollaboratorError, <<>>, "", fault, ext)
        ELSE IF idents[identityID].Banned
        THEN ExternalResult(UnauthorizedError, <<>>, "", "none", ext)
        ELSE IF fault = "provider"
        THEN ExternalResult(CollaboratorError, <<>>, "", fault, ext)
        ELSE IF fault = "exists"
        THEN ExternalResult(UnauthorizedError, <<>>, "", fault, ext)
        ELSE IF fault = "load"
        THEN ExternalResult(TransactionError(CollaboratorError), <<>>, "", fault, ext)
        ELSE IF Len(loaded) = 0
        THEN ExternalResult(UnauthorizedError, <<>>, "token is missing", "none", ext)
        ELSE IF forcePull /\ fault = "profile"
        THEN ExternalResult(UnauthorizedError, <<>>, "token is not valid or expired",
                            fault, ext)
        ELSE IF forcePull /\ fault = "save"
        THEN ExternalResult(TransactionError(CollaboratorError), <<>>, "", fault, ext)
        ELSE ExternalResult(NoError, <<appResponse>>, "", "none",
                            IF forcePull THEN SaveExternal(ext, pulled) ELSE ext)

\* an account is linked: the provider's token of an identity is stored
CreateExternalToken ==
    /\ last = Idle
    /\ Len(externalTokens) < MaxExternalTokens
    /\ \E providerID \in Providers, identityID \in Identities,
          token \in ExternalTokenStrings :
        externalTokens' = CreateExternal(externalTokens, providerID, identityID, token)
    /\ UNCHANGED <<tokens, privileges, cache, claims, maxPerms, used, last, identities>>

RetrieveExternalTokenCall ==
    /\ last = Idle
    /\ \E identityID \in Identities, forResource \in Providers \cup {""},
          forcePull \in BOOLEAN, fault \in ExternalFaults :
        \E out \in {RetrieveExternalToken(externalTokens, identities, identityID,
                                          forResource, forcePull, fault)} :
          /\ externalTokens' = out.externalTokens
          /\ last' = LastCall("RetrieveExternalToken", identityID, 0, forResource,
                         [Plain(out.err) EXCEPT
                             !.external = [token |-> out.token, hint |-> out.hint,
                                           failed |-> out.failed]])
          /\ UNCHANGED <<tokens, privileges, cache, claims, maxPerms, used, identities>>

\* accounts are linked, a user is banned, and external tokens are retrieved
NextExternal ==
    \/ CreateExternalToken
    \/ BanUser
    \/ RetrieveExternalTokenCall
    \/ Return

SpecExternal == Init /\ [][NextExternal]_vars

\* ------------------------------------- Audit beside a bulk status update

\* Audit got as far as the Save of line 185: the loaded record of the caller
\* had STALE alone and the comparison of 138-182 found nothing changed
ReachesSave(out) ==
    /\ out.err = NoError
    /\ out.minted = <<>>
    /\ out.loaded # <<>>
    /\ out.loaded[1].Status = {"STALE"}
    /\ out.resourceExistsInToken

\* lines 63-182 of Audit: the record is loaded, checked and compared.  A call
\* that does not get to the Save of line 185 ends here; one that does holds
\* the loaded record with its status set to 0 and has not written it yet
AuditBegin ==
    /\ last = Idle
    /\ \E identity \in Identities, t \in DOMAIN claims,
       resourceID \in Resources \cup {UnknownResource} :
      LET db == DB(tokens, privileges, cache) IN
      \E fault \in AuditFaults(db, claims, identity, t, resourceID),
         fresh \in FreshChoices(db, claims, identity, t, resourceID) :
        \E order \in AuditOrders(db, claims, identity, t, resourceID, fresh) :
          \E newID \in {NextTokenID(claims)} :
          \E out \in {AuditCall(db, claims, identity, t, resourceID, newID, fault,
                               fresh, order, maxPerms)} :
              /\ out.minted = <<>> \/ newID \in TokenIDs
              /\ tokens' = IF ReachesSave(out) THEN tokens ELSE out.db.tokens
              /\ privileges' = out.db.privileges
              /\ cache' = out.db.cache
              /\ claims' = IF out.minted = <<>> THEN claims
                           ELSE [id \in DOMAIN claims \cup {newID} |->
                                    IF id = newID THEN out.newClaims[1] ELSE claims[id]]
              /\ last' = IF ReachesSave(out)
                         THEN [LastCall("AuditInFlight", identity, t, resourceID, out)
                                  EXCEPT !.saved = <<[out.loaded[1] EXCEPT !.Status = {}]>>]
                         ELSE LastCall("Audit", identity, t, resourceID, out)
              /\ UNCHANGED <<maxPerms, used, identities, externalTokens>>

\* SetStatusForAllIdentityTokens for the caller of an Audit that has loaded
\* its record and not saved it yet
SetStatusDuringAudit ==
    /\ last.op = "AuditInFlight"
    /\ last.status = {}
    /\ \E status \in StatusInputs, fault \in StatusFaults :
        \E out \in {SetStatusForAll(tokens, identities, last.identity, status, fault)} :
          /\ tokens' = out.tokens
          /\ last' = [last EXCEPT !.status = IF out.err = NoError THEN status ELSE @]
    /\ UNCHANGED <<privileges, cache, claims, maxPerms, used, identities, externalTokens>>

\* lines 184-194 of Audit: Save(loadedToken) writes the record as it was
\* loaded, with status 0, and the call returns (nil, nil)
AuditSave ==
    /\ last.op = "AuditInFlight"
    /\ tokens' = [tokens EXCEPT ![last.token] = last.saved[1]]
    /\ last' = [last EXCEPT !.op = "Audit"]
    /\ UNCHANGED <<privileges, cache, claims, maxPerms, used, identities, externalTokens>>

\* tokens are registered and flagged, and Audit runs beside a bulk update of
\* the status of the tokens of its caller
NextConcurrent ==
    \/ RegisterTokenCall
    \/ SetStatusForAllIdentityTokens
    \/ AuditBegin
    \/ SetStatusDuringAudit
    \/ AuditSave
    \/ last.op # "AuditInFlight" /\ Return

SpecConcurrent == Init /\ [][NextConcurrent]_vars

\* -------------------------------------------- scopesEquivalent on its own

\* the scope names of the lists compared
ScopeNames == {"a", "b", "c"}

\* the scope lists handed to scopesEquivalent: every list of at most
\* MaxScopes names, repeated names included
ScopeInputs == UNION {[1..n -> ScopeNames] : n \in 0..MaxScopes}

\* the two lists of a comparison are chosen; nothing else exists
InitScopes ==
    /\ tokens = [id \in {} |-> {}]
    /\ privileges = {}
    /\ cache = [id \in {} |-> {}]
    /\ claims = [id \in {} |-> {}]
    /\ maxPerms = MaxPermissions
    /\ used = [registrations |-> 0, statusUpdates |-> 0, invalidations |-> 0,
               issued |-> 0, exchanges |-> 0, cleanups |-> 0, calls |-> 0]
    /\ \E value1 \in ScopeInputs, value2 \in ScopeInputs :
        last = [Idle EXCEPT !.scopes = [value1 |-> value1, value2 |-> value2,
                                        equivalent |-> FALSE]]
    /\ identities = [i \in Identities |-> [Banned |-> FALSE, LastActive |-> FALSE]]
    /\ externalTokens = <<>>

\* scopesEquivalent(value1, value2) is called with the two lists
ScopesEquivalentCall ==
    /\ last.op = "none"
    /\ last' = [last EXCEPT !.op = "scopesEquivalent",
                            !.scopes.equivalent =
                                scopesEquivalent(last.scopes.value1, last.scopes.value2)]
    /\ UNCHANGED <<tokens, privileges, cache, claims, maxPerms, used, identities,
                   externalTokens>>

SpecScopes == InitScopes /\ [][ScopesEquivalentCall]_vars

\* ------------------------------------------ the writes of a transaction

\* the ids in S from the smallest to the largest
RECURSIVE Ascending(_)
Ascending(S) ==
    IF S = {} THEN <<>>
    ELSE LET m == CHOOSE i \in S : \A j \in S : i <= j
         IN  <<m>> \o Ascending(S \ {m})

\* the writes of RegisterToken for the new tokens in ids, in the order of
\* the ids: the token record, then one CreatePrivilege for each of its rows
RECURSIVE RegistrationWrites(_, _)
RegistrationWrites(after, ids) ==
    IF ids = <<>> THEN <<>>
    ELSE LET id == Head(ids)
             rows == SeqOf({p \in after.privileges : p.TokenID = id})
         IN  <<[table |-> "token", id |-> id, row |-> after.tokens[id]]>>
             \o [k \in 1..Len(rows) |->
                    [table |-> "token_privilege", id |-> id, row |-> rows[k]]]
             \o RegistrationWrites(after, Tail(ids))

\* the writes a transaction makes to get from the tables before to after
TransactionWrites(before, after) ==
    RegistrationWrites(after, Ascending(DOMAIN after.tokens \ DOMAIN before.tokens))

\* the tables with the first k writes made
Written(before, writes, k) ==
    LET made == {writes[j] : j \in 1..k}
        records == {w \in made : w.table = "token"}
    IN  [before EXCEPT
            !.tokens = [id \in DOMAIN before.tokens \cup {w.id : w \in records} |->
                           IF id \in DOMAIN before.tokens THEN before.tokens[id]
                           ELSE (CHOOSE w \in records : w.id = id).row],
            !.privileges = before.privileges
                             \cup {w.row : w \in {v \in made : v.table = "token_privilege"}}]

\* a transaction whose writes other operations read before it commits
TransactionVisible_ReadUncommitted(committed, written) == written

\* what the other operations read of the tables while a transaction is
\* open: the tables as committed, none of the writes made so far
TransactionVisible(committed, written) == committed

\* the transaction of a call: the tables when it began, the tables it
\* commits, its writes, how many are made, and the token strings the call
\* returns when it has committed
OpenTransaction(before, after, newClaims) ==
    <<[before |-> before, after |-> after, claims |-> newClaims,
       writes |-> TransactionWrites(before, after), done |-> 0]>>

\* Audit with its transaction (202-306) taken write by write: a call that
\* does not mint ends at once, one that mints opens the transaction
AuditInTransaction ==
    /\ last = Idle
    /\ \E identity \in Identities, t \in DOMAIN claims,
          resourceID \in Resources \cup {UnknownResource} :
      LET db == DB(tokens, privileges, cache) IN
      \E fault \in AuditFaults(db, claims, identity, t, resourceID),
         fresh \in FreshChoices(db, claims, identity, t, resourceID) :
        \E order \in AuditOrders(db, claims, identity, t, resourceID, fresh) :
          \E newID \in {NextTokenID(claims)} :
          \E out \in {AuditCall(db, claims, identity, t, resourceID, newID, fault,
                               fresh, order, maxPerms)} :
          \E opens \in {out.err = NoError /\ out.minted # <<>>} :
          \E newClaims \in {IF out.minted = <<>> THEN claims
                            ELSE [id \in DOMAIN claims \cup {newID} |->
                                     IF id = newID THEN out.newClaims[1] ELSE claims[id]]} :
              /\ out.minted = <<>> \/ newID \in TokenIDs
              /\ tokens' = IF opens THEN tokens ELSE out.db.tokens
              /\ privileges' = IF opens THEN privileges ELSE out.db.privileges
              /\ cache' = IF opens THEN cache ELSE out.db.cache
              /\ claims' = IF opens THEN claims ELSE newClaims
              /\ last' = [LastCall("Audit", identity, t, resourceID, out)
                             EXCEPT !.transaction =
                                 IF opens THEN OpenTransaction(db, out.db, newClaims)
                                 ELSE <<>>]
              /\ UNCHANGED <<maxPerms, used, identities, externalTokens>>

\* ExchangeRefreshToken with its transaction (377-502) taken write by write:
\* an exchange that registers its pair opens the transaction, any other ends
\* at once
ExchangeInTransaction ==
    /\ last = Idle
    /\ used.exchanges < MaxExchanges
    /\ used' = [used EXCEPT !.exchanges = @ + 1]
    /\ \E t \in DOMAIN claims, rpt \in DOMAIN claims \cup {0},
          fault \in ExchangeFaults :
        \E rptString \in IF rpt # 0 THEN {"signed"} ELSE {""} :
        \E lookup \in Lookups(identities, SubOf(claims, t)) :
        \E identity \in {ExchangeIdentity(identities, SubOf(claims, t), lookup)} :
        \E newIDs \in {NewTokenIDs(claims, 2)} :
        \E db \in {DB(tokens, privileges, cache)} :
        \E order \in ExchangeOrders(db, identity, rpt, rptString) :
        \E out \in {ExchangeRefreshToken(db, identities, claims, maxPerms, t, "signed",
                        rpt, rptString, lookup, fault, ExchangeFresh, newIDs, order)} :
        \E opens \in {out.exchange.pair # <<>>} :
        \E newClaims \in {ClaimsAfter(claims, claims[t], out.exchange)} :
          /\ Len(newIDs) = 2
          /\ tokens' = IF opens THEN tokens ELSE out.db.tokens
          /\ privileges' = IF opens THEN privileges ELSE out.db.privileges
          /\ cache' = IF opens THEN cache ELSE out.db.cache
          /\ claims' = IF opens THEN claims ELSE newClaims
          /\ identities' = out.identities
          /\ last' = LastCall("ExchangeRefreshToken", SubOf(claims, t), t, "none",
                         [Plain(out.err) EXCEPT
                             !.exchange = out.exchange,
                             !.transaction =
                                 IF opens THEN OpenTransaction(db, out.db, newClaims)
                                 ELSE <<>>])
          /\ UNCHANGED <<maxPerms, externalTokens>>

\* a transaction is open: the call has not committed yet
TransactionOpen ==
    last.transaction # <<>> /\ last.transaction[1].done <= Len(last.transaction[1].writes)

\* the open transaction makes its next write
TransactionWrite ==
    /\ last.transaction # <<>>
    /\ last.transaction[1].done < Len(last.transaction[1].writes)
    /\ \E tx \in {last.transaction[1]}, committed \in {DB(tokens, privileges, cache)} :
        \E seen \in {TransactionVisible(committed,
                                        Written(committed, tx.writes, tx.done + 1))} :
          /\ tokens' = seen.tokens
          /\ privileges' = seen.privileges
          /\ last' = [last EXCEPT !.transaction[1].done = @ + 1]
    /\ UNCHANGED <<cache, claims, maxPerms, used, identities, externalTokens>>

\* the transaction commits: its writes are added to the tables as they are
\* now and become visible together, and the call returns its token strings
TransactionCommit ==
    /\ last.transaction # <<>>
    /\ last.transaction[1].done = Len(last.transaction[1].writes)
    /\ \E tx \in {last.transaction[1]} :
        \E after \in {Written(DB(tokens, privileges, cache), tx.writes, Len(tx.writes))} :
          /\ tokens' = after.tokens
          /\ privileges' = after.privileges
    /\ cache' = last.transaction[1].after.cache
    /\ claims' = last.transaction[1].claims
    /\ last' = [last EXCEPT !.transaction[1].done = @ + 1]
    /\ UNCHANGED <<maxPerms, used, identities, externalTokens>>

\* SetStatusForAllIdentityTokens (708-739) for the identity of a call whose
\* transaction is open: the update commits on the tables as they are
\* committed, where the writes of the open transaction are not
SetStatusDuringTransaction ==
    /\ TransactionOpen
    /\ last.status = {}
    /\ \E status \in StatusInputs, fault \in StatusFaults :
        \E out \in {SetStatusForAll(tokens, identities, last.identity, status, fault)} :
          /\ tokens' = out.tokens
          /\ last' = [last EXCEPT !.status = IF out.err = NoError THEN status ELSE @]
    /\ UNCHANGED <<privileges, cache, claims, maxPerms, used, identities, externalTokens>>

\* token strings are issued and flagged, and Audit and the exchange run with
\* their transactions taken write by write, beside a bulk update of the
\* status of the tokens of their caller
NextIsolation ==
    \/ used.calls = 0 /\ IssueToken
    \/ used.calls = 0 /\ SetStatusForAllIdentityTokens
    \/ used.calls = 0 /\ InvalidatePrivilege
    \/ used.calls < MaxCalls /\ AuditInTransaction
    \/ used.calls < MaxCalls /\ ExchangeInTransaction
    \/ TransactionWrite
    \/ SetStatusDuringTransaction
    \/ TransactionCommit
    \/ ~TransactionOpen /\ ReturnCounted

SpecIsolation == Init /\ [][NextIsolation]_vars

\* -------------------------------------------------------------- properties
\* The properties of the calls are stated for calls whose collaborators
\* answer: a call that ends with an Internal error is the subject of the
\* properties on failures only.

\* a call of Audit for an existing resource
AuditStep == last = Idle /\ last'.op = "Audit" /\ last'.resource \in Resources

\* the call of Audit left the token table, the token_privilege table and the
\* issued token strings as they were
NothingWritten == tokens' = tokens /\ privileges' = privileges /\ claims' = claims

\* the token string with jti t carries a permission for the resource
Embeds(t, resourceID) ==
    \E k \in 1..Len(claims[t].Permissions) :
        claims[t].Permissions[k].ResourceSetID = resourceID

\* Audit has just returned, having loaded the record of a token of the caller
AuditedOwnToken ==
    /\ last.op = "Audit"
    /\ last.loaded # <<>>
    /\ last.loaded[1].IdentityID = last.identity

\* Audit has just returned a new token
AuditMinted == last.op = "Audit" /\ last.minted # <<>>

\* the permissions of the token Audit has just returned
MintedPermissions == claims[last.minted[1]].Permissions

\* the token_privilege rows of token t
PrivilegeRows(t) == {p \in privileges : p.TokenID = t}

\* C1: when the record of the presented token exists, belongs to the caller
\* and has no status flag, and the token embeds a permission for the
\* requested resource, Audit returns (nil, nil): no error, no new token, no
\* Token or TokenPrivilege row created and no status changed.
C1_ValidEmbeddedIsSufficient ==
    [][(/\ AuditStep
        /\ last'.token \in DOMAIN tokens
        /\ tokens[last'.token].IdentityID = last'.identity
        /\ tokens[last'.token].Status = {}
        /\ Embeds(last'.token, last'.resource))
       => (/\ last'.err = NoError
           /\ last'.minted = <<>>
           /\ NothingWritten)]_vars

\* C1 happens: Audit returned (nil, nil) for a valid token of the caller
\* that embeds the resource
C1_Witness ==
    /\ AuditedOwnToken
    /\ last.loaded[1].Status = {}
    /\ last.resourceExistsInToken
    /\ last.err = NoError
    /\ last.minted = <<>>

\* C2 as stated: Audit against any token whose record has the DEPROVISIONED
\* flag fails Unauthorized with the token-deprovisioned code, whoever calls.
C2_DeprovisionedAnyCaller ==
    (/\ last.op = "Audit"
     /\ last.loaded # <<>>
     /\ "DEPROVISIONED" \in last.loaded[1].Status)
    => last.err = UnauthorizedErrorWithCode(UNAUTHORIZED_CODE_TOKEN_DEPROVISIONED)

\* C2, for the owner: Audit for an existing resource against a token of the
\* caller whose record has the DEPROVISIONED flag fails Unauthorized with the
\* token-deprovisioned code, whatever the other flags, whether or not the
\* resource is embedded and whatever the live scopes; nothing is minted or
\* written.
C2_DeprovisionedOwnToken ==
    [][(/\ AuditStep
        /\ last'.token \in DOMAIN tokens
        /\ tokens[last'.token].IdentityID = last'.identity
        /\ "DEPROVISIONED" \in tokens[last'.token].Status)
       => (/\ last'.err = UnauthorizedErrorWithCode(UNAUTHORIZED_CODE_TOKEN_DEPROVISIONED)
           /\ last'.minted = <<>>
           /\ NothingWritten)]_vars

\* C2 happens: a token of the caller with DEPROVISIONED and REVOKED set was
\* refused with the token-deprovisioned code
C2_Witness ==
    /\ AuditedOwnToken
    /\ {"DEPROVISIONED", "REVOKED"} \subseteq last.loaded[1].Status
    /\ last.err = UnauthorizedErrorWithCode(UNAUTHORIZED_CODE_TOKEN_DEPROVISIONED)

\* C3: Audit against a token of the caller whose record has REVOKED or
\* LOGGED_OUT and not DEPROVISIONED fails Unauthorized with the token-revoked
\* code, the same for both flags, whether or not the resource is embedded and
\* whether or not STALE is set; nothing is minted or written.
C3_RevokedOrLoggedOut ==
    [][(/\ AuditStep
        /\ last'.token \in DOMAIN tokens
        /\ tokens[last'.token].IdentityID = last'.identity
        /\ tokens[last'.token].Status \cap {"REVOKED", "LOGGED_OUT"} # {}
        /\ "DEPROVISIONED" \notin tokens[last'.token].Status)
       => (/\ last'.err = UnauthorizedErrorWithCode(UNAUTHORIZED_CODE_TOKEN_REVOKED)
           /\ last'.minted = <<>>
           /\ NothingWritten)]_vars

\* C3 happens: a logged-out and stale token of the caller that embeds the
\* resource was refused with the token-revoked code
C3_Witness ==
    /\ AuditedOwnToken
    /\ last.loaded[1].Status = {"STALE", "LOGGED_OUT"}
    /\ last.resourceExistsInToken
    /\ last.err = UnauthorizedErrorWithCode(UNAUTHORIZED_CODE_TOKEN_REVOKED)

\* C4: when the record's IdentityID differs from the caller, Audit fails
\* Unauthorized for every status of the record: it mints nothing, resets no
\* status, writes nothing and does not read the privilege cache.
C4_NotTheOwner ==
    [][(/\ AuditStep
        /\ last'.token \in DOMAIN tokens
        /\ tokens[last'.token].IdentityID # last'.identity)
       => (/\ last'.err.type = "Unauthorized"
           /\ last'.minted = <<>>
           /\ last'.reads = {}
           /\ cache' = cache
           /\ NothingWritten)]_vars

\* C4 happens: a valid token that embeds the resource was presented by a
\* caller who does not own it, and refused
C4_Witness ==
    /\ last.op = "Audit"
    /\ last.loaded # <<>>
    /\ last.loaded[1].IdentityID # last.identity
    /\ last.loaded[1].Status = {}
    /\ last.resourceExistsInToken
    /\ last.err = UnauthorizedError

\* Audit has just returned from the comparison of a token of the caller
\* whose only flag is STALE and which embeds the resource
StaleCase ==
    /\ AuditedOwnToken
    /\ last.loaded[1].Status = {"STALE"}
    /\ last.resourceExistsInToken
    /\ last.err.type # "Internal"

\* the number of persisted privileges equals the number of embedded
\* permissions
SameCount ==
    Cardinality(PrivilegeRows(last.token)) = Len(claims[last.token].Permissions)

\* every embedded permission has the scope set of the live scopes
SameScopes ==
    \A k \in 1..Len(claims[last.token].Permissions) :
        Range(claims[last.token].Permissions[k].Scopes)
            = Range(last.live[claims[last.token].Permissions[k].ResourceSetID])

\* every embedded resource is among the resources of the persisted privileges
ResourcesPersisted ==
    \A k \in 1..Len(claims[last.token].Permissions) :
        \E p \in PrivilegeRows(last.token) :
            p.PrivilegeCacheID[2] = claims[last.token].Permissions[k].ResourceSetID

\* the token was reset to VALID and Audit returned (nil, nil)
StaleReset ==
    /\ last.err = NoError
    /\ last.minted = <<>>
    /\ tokens[last.token].Status = {}

\* the token was left STALE and Audit returned a new token
StaleReplaced ==
    /\ last.err = NoError
    /\ last.minted # <<>>
    /\ tokens[last.token].Status = {"STALE"}

C6_MintedWithinMaximum ==
    AuditMinted => Len(MintedPermissions) <= maxPerms

\* C7: a token minted by Audit for a resource has that resource exactly once
\* among its permissions, in the first place: it is never displaced, and no
\* migrated entry is for it even when the replaced token had a privilege on it.
C7_RequestedResourceOnce ==
    AuditMinted =>
        /\ Cardinality({k \in 1..Len(MintedPermissions) :
               MintedPermissions[k].ResourceSetID = last.resource}) = 1
        /\ MintedPermissions[1].ResourceSetID = last.resource

\* C7 happens: the replaced token had a privilege on the requested resource
\* and another privilege, which was migrated
C7_Witness ==
    /\ AuditMinted
    /\ \E k \in 1..Len(last.old) : last.old[k].ResourceID = last.resource
    /\ Len(MintedPermissions) >= 2

\* the historical privileges of the replaced token on other resources
Historical == {k \in 1..Len(last.old) : last.old[k].ResourceID # last.resource}

\* the resources of the migrated permissions
Migrated ==
    {MintedPermissions[k].ResourceSetID : k \in 1..Len(MintedPermissions)}
        \ {last.resource}

\* C8: with a maximum M of at least 1 and n historical privileges on other
\* resources, the minted token has min(M, n + 1) permissions: the requested
\* resource and the min(M - 1, n) historical ones with the latest expiry
\* times; no historical privilege left out expires later than one included.
C8_LatestExpiryMigrated ==
    (AuditMinted /\ maxPerms >= 1) =>
        /\ Len(MintedPermissions) = Min(maxPerms, Cardinality(Historical) + 1)
        /\ Cardinality(Migrated) = Min(maxPerms - 1, Cardinality(Historical))
        /\ Migrated \subseteq {last.old[k].ResourceID : k \in Historical}
        /\ \A j, k \in Historical :
              (/\ last.old[j].ResourceID \in Migrated
               /\ last.old[k].ResourceID \notin Migrated)
              => last.old[k].ExpiryTime <= last.old[j].ExpiryTime

\* C8 happens: of two historical privileges with different expiry times one
\* was migrated and one was left out
C8_Witness ==
    /\ AuditMinted
    /\ maxPerms >= 1
    /\ Cardinality(Migrated) = 1
    /\ \E j, k \in Historical : last.old[j].ExpiryTime # last.old[k].ExpiryTime

\* C9: the minted token's permission for the requested resource has the
\* scopes and the expiry time of the privilege cache entry of the caller and
\* the resource, exactly one TokenPrivilege row of the new token references
\* that entry, and when nothing is migrated it is the only permission and the
\* only row.
C9_RequestedPermissionFromCache ==
    AuditMinted =>
        LET id == CacheID(last.identity, last.resource)
            rows == PrivilegeRows(last.minted[1])
        IN  /\ id \in DOMAIN cache
            /\ \E k \in 1..Len(MintedPermissions) :
                  MintedPermissions[k].ResourceSetID = last.resource
            /\ \A k \in 1..Len(MintedPermissions) :
                  MintedPermissions[k].ResourceSetID = last.resource
                  => /\ MintedPermissions[k].Scopes = cache[id].Scopes
                     /\ MintedPermissions[k].Expiry = cache[id].ExpiryTime
            /\ Cardinality({p \in rows : p.PrivilegeCacheID = id}) = 1
            /\ Len(MintedPermissions) = 1
               => rows = {[TokenID |-> last.minted[1], PrivilegeCacheID |-> id]}

\* C9 happens: a token with the one permission was minted from a privilege
\* cache entry that was recomputed in the call
C9_Witness ==
    /\ AuditMinted
    /\ Len(MintedPermissions) = 1
    /\ cache[CacheID(last.identity, last.resource)].Scopes # <<"a">>

\* C10: the mint of Audit is all or nothing: when a privilege cache lookup,
\* the generation, the signing, the registration or a CreatePrivilege fails,
\* Audit returns an error and no token, and no Token row and no TokenPrivilege
\* row of the new token remains, also when RegisterToken had created the
\* Token row before a later CreatePrivilege failed.
C10_MintAllOrNothing ==
    [][(/\ last = Idle
        /\ last'.op = "Audit"
        /\ last'.err # NoError)
       => (/\ last'.minted = <<>>
           /\ NothingWritten)]_vars

\* C10 happens: a CreatePrivilege failed after the Token row was created
C10_Witness ==
    /\ last.op = "Audit"
    /\ last.partial
    /\ last.err = InternalError

\* C11: Audit fails with BadParameter, writes nothing and mints nothing when
\* the resource does not exist, when the token string cannot be parsed and
\* when the jti is not an identifier; the resource is looked up before the
\* token is parsed, so that with both wrong the error names the resource.
C11_BadParameter ==
    [][(/\ last = Idle
        /\ last'.op = "Audit"
        /\ \/ last'.resource \notin Resources
           \/ last'.tokenString \in BadTokenStrings)
       => (/\ last'.err.type = "BadParameter"
           /\ last'.err.code =
                 IF last'.resource \notin Resources THEN "resourceID"
                 ELSE IF last'.tokenString = "unparsable" THEN "tokenString"
                 ELSE "jti"
           /\ last'.minted = <<>>
           /\ cache' = cache
           /\ NothingWritten)]_vars

\* C11 happens: Audit was called for a resource that does not exist with a
\* token string that cannot be parsed, and named the resource
C11_Witness ==
    /\ last.op = "Audit"
    /\ last.resource = UnknownResource
    /\ last.tokenString = "unparsable"
    /\ last.err = BadParameterErrorFromString("resourceID")

\* C12: Audit for an existing resource with a parsable token that has no
\* Token record does not fail: whoever the caller is and with no status to
\* look at, it mints a token with the one permission of the resource, nothing
\* migrated, registered as a VALID Token of type RPT owned by the caller.
C12_NoRecordMints ==
    (/\ last.op = "Audit"
     /\ last.tokenString = "signed"
     /\ last.resource \in Resources
     /\ last.token \notin DOMAIN tokens
     /\ last.err.type # "Internal")
    => /\ last.err = NoError
       /\ AuditMinted
       /\ last.loaded = <<>>
       /\ last.old = <<>>
       /\ Len(MintedPermissions) = 1
       /\ last.minted[1] \in DOMAIN tokens
       /\ tokens[last.minted[1]].IdentityID = last.identity
       /\ tokens[last.minted[1]].Status = {}
       /\ tokens[last.minted[1]].TokenType = "rpt_token"
       /\ tokens[last.minted[1]].TokenID = last.minted[1]

\* C12 happens: a token without a record, signed for another identity than
\* the caller, was presented and a new token was minted for the caller
C12_Witness ==
    /\ AuditMinted
    /\ last.token \notin DOMAIN tokens
    /\ claims[last.token].sub # last.identity
    /\ tokens[last.minted[1]].IdentityID = last.identity

\* a call of RegisterToken
RegisterStep == last = Idle /\ last'.op = "RegisterToken"

\* C18: a successful RegisterToken persists exactly one Token, with the jti
\* of the token string as TokenID, the IdentityID and TokenType of the
\* arguments, the exp claim as ExpiryTime and Status VALID, and one
\* TokenPrivilege row with that TokenID for each element of privileges, none
\* when privileges is empty.
C18_RegisterTokenPersists ==
    [][(RegisterStep /\ last'.err = NoError)
       => (/\ last'.token \notin DOMAIN tokens
           /\ DOMAIN tokens' = DOMAIN tokens \cup {last'.token}
           /\ \A id \in DOMAIN tokens : tokens'[id] = tokens[id]
           /\ tokens'[last'.token] =
                 [TokenID |-> last'.token,
                  IdentityID |-> last'.identity,
                  Status |-> {},
                  TokenType |-> last'.tokenType,
                  ExpiryTime |-> claims'[last'.token].ExpiresAt]
           /\ privileges \subseteq privileges'
           /\ privileges' \ privileges =
                 {[TokenID |-> last'.token, PrivilegeCacheID |-> last'.privs[k]] :
                     k \in 1..Len(last'.privs)})]_vars

\* C18 happens: a token was registered with two privileges
C18_Witness ==
    /\ last.op = "RegisterToken"
    /\ last.err = NoError
    /\ Len(last.privs) = 2
    /\ Cardinality(PrivilegeRows(last.token)) = 2

\* C19: whenever RegisterToken returns an error no Token row and no
\* TokenPrivilege row of the call is persisted: a token string that cannot
\* be parsed or whose jti is not an identifier gives BadParameter before any
\* write, and a failure to create the Token or a TokenPrivilege row gives an
\* error with the Token row and the rows already written rolled back.
C19_RegisterTokenAllOrNothing ==
    [][(RegisterStep /\ last'.err # NoError)
       => (/\ tokens' = tokens
           /\ privileges' = privileges
           /\ last'.err.type =
                 IF last'.tokenString \in BadTokenStrings THEN "BadParameter"
                 ELSE "Internal")]_vars

\* C19 happens: the last of two CreatePrivilege calls failed after the Token
\* row and the first row were written
C19_Witness ==
    /\ last.op = "RegisterToken"
    /\ last.err = InternalError
    /\ last.partial
    /\ Len(last.privs) = 2

\* ------------------------------------------------------------------- C20

ValidateStep == last = Idle /\ last'.op = "ValidateToken" /\ last'.tokenString = "signed"

\* C20: ValidateToken succeeds only if a Token record exists for the jti and
\* has no status flag.  An error of the load is returned as it came, a missing
\* record as NotFound; a record with any flag, STALE alone included, yields
\* Unauthorized; and a call that fails in either way leaves the last-active
\* mark of every identity alone.
C20_ValidateToken ==
    [][ValidateStep =>
        /\ last'.err = NoError =>
               (last'.token \in DOMAIN tokens /\ tokens[last'.token].Status = {})
        /\ last'.token \notin DOMAIN tokens =>
               (/\ last'.err \in {NotFoundError, CollaboratorError}
                /\ identities' = identities)
        /\ (last'.token \in DOMAIN tokens /\ tokens[last'.token].Status # {}) =>
               (/\ last'.err \in {UnauthorizedError, CollaboratorError}
                /\ identities' = identities)
        /\ last'.err = CollaboratorError => identities' = identities
        /\ tokens' = tokens /\ privileges' = privileges]_vars

\* a record that is only STALE was refused, and nothing was touched
C20_Witness ==
    /\ last.op = "ValidateToken"
    /\ last.token \in DOMAIN tokens
    /\ tokens[last.token].Status = {"STALE"}
    /\ last.err = UnauthorizedError
    /\ last.identity \in DOMAIN identities
    /\ ~identities[last.identity].LastActive

\* ------------------------------------------------------------- C13 - C17

ExchangeStep == last = Idle /\ last'.op = "ExchangeRefreshToken"

ExchangeWroteNothing == tokens' = tokens /\ privileges' = privileges

\* C13: an exchange of a refresh token whose subject identity is banned fails
\* Unauthorized, never asks the token manager for a token pair and registers
\* no Token record.
C13_BannedNeverGenerates ==
    [][(/\ ExchangeStep
        /\ last'.identity \in DOMAIN identities
        /\ identities[last'.identity].Banned)
       => (/\ last'.err = UnauthorizedError
           /\ ~last'.exchange.generated
           /\ ExchangeWroteNothing)]_vars

\* the identity of a banned user could not be loaded, and the token manager
\* was asked for a token pair
C13_Witness ==
    /\ last.op = "ExchangeRefreshToken"
    /\ last.identity \in DOMAIN identities
    /\ identities[last.identity].Banned
    /\ last.exchange.lookup = "error"
    /\ last.exchange.generated
    /\ last.err # UnauthorizedError

\* C14: an exchange fails Unauthorized, and generates and registers nothing,
\* when the refresh token cannot be parsed, has no Token record, has a record
\* with a status flag, has no sub claim, or fails ValidateToken otherwise.
C14_InvalidRefreshUnauthorized ==
    [][(/\ ExchangeStep
        /\ \/ last'.tokenString = "unparsable"
           \/ last'.token \notin DOMAIN tokens
           \/ tokens[last'.token].Status # {}
           \/ "sub" \notin DOMAIN claims[last'.token]
           \/ last'.exchange.failed = "validate")
       => (/\ last'.err = UnauthorizedError
           /\ ~last'.exchange.generated
           /\ ExchangeWroteNothing)]_vars

\* a valid refresh token without a sub claim ended the call in ValidateToken
C14_Witness ==
    /\ last.op = "ExchangeRefreshToken"
    /\ last.token \in DOMAIN tokens
    /\ tokens[last.token].Status = {}
    /\ "sub" \notin DOMAIN claims[last.token]
    /\ last.err = Panic("type_assertion")

\* the new Token records of the pair an exchange registered
PairRegistered ==
    /\ Len(last'.exchange.pair) = 2
    /\ \A k \in 1..2 :
        /\ last'.exchange.pair[k] \notin DOMAIN tokens
        /\ last'.exchange.pair[k] \in DOMAIN tokens'

\* C15: when the refresh token is valid and the load of its identity fails
\* with an error that is not Unauthorized, the exchange goes on without an
\* identity, asks for a pair with no permissions, registers the new tokens and
\* returns the pair; an Unauthorized error of the lookup is returned.
C15_ProceedsWithoutIdentity ==
    [][ExchangeStep =>
        /\ (last'.exchange.lookup = "error" /\ last'.exchange.failed = "none") =>
               (/\ last'.err = NoError
                /\ last'.exchange.generated
                /\ last'.exchange.permissions = <<>>
                /\ PairRegistered)
        /\ last'.exchange.lookup = "unauthorized" =>
               (last'.err = UnauthorizedError /\ ExchangeWroteNothing)]_vars

\* the exchange of the refresh token of an API client ended in the
\* registration of the new access token
C15_Witness ==
    /\ last.op = "ExchangeRefreshToken"
    /\ last.identity = ClientID
    /\ last.exchange.lookup = "error"
    /\ last.exchange.generated
    /\ last.err = Panic("nil_pointer")

\* C16: a successful exchange registers exactly two new Token records, VALID
\* and owned by the identity of the refresh token: the access token as an RPT
\* with one TokenPrivilege row per migrated permission when there are
\* permissions, as an access token without rows when there are none, and the
\* refresh token as a refresh token; ValidateToken accepts both.
C16_RegistersThePair ==
    [][(ExchangeStep /\ last'.err = NoError) =>
        LET x == last'.exchange
            access == x.pair[1]
            refresh == x.pair[2]
            rows(id) == {p \in privileges' : p.TokenID = id}
        IN  /\ PairRegistered
            /\ DOMAIN tokens' = DOMAIN tokens \cup {access, refresh}
            /\ access # refresh
            /\ \A id \in DOMAIN tokens : tokens'[id] = tokens[id]
            /\ \A id \in {access, refresh} :
                /\ tokens'[id].Status = {}
                /\ tokens'[id].IdentityID = last'.identity
                /\ tokens'[id].TokenID = id
                /\ ValidateToken(tokens', identities', claims', id, "signed", "none").err
                       = NoError
            /\ tokens'[refresh].TokenType = "refresh_token"
            /\ rows(refresh) = {}
            /\ tokens'[access].TokenType =
                   IF x.permissions # <<>> THEN "rpt_token" ELSE "access_token"
            /\ Cardinality(rows(access)) = Len(x.permissions)
            /\ \A k \in 1..Len(x.permissions) :
                   [TokenID |-> access,
                    PrivilegeCacheID |-> CacheID(last'.identity,
                                                 x.permissions[k].ResourceSetID)]
                       \in rows(access)
            /\ privileges' = privileges \cup rows(access)
            /\ claims'[access].Permissions = x.permissions]_vars

\* an exchange migrated two permissions into the new RPT
C16_Witness ==
    /\ last.op = "ExchangeRefreshToken"
    /\ last.err = NoError
    /\ Len(last.exchange.permissions) = 2
    /\ tokens[last.exchange.pair[1]].TokenType = "rpt_token"
    /\ tokens[last.exchange.pair[2]].TokenType = "refresh_token"

RegistrationSteps ==
    {"generate", "create", "privilege_first", "privilege_last", "refresh_create"}

\* C17: when the generation of the pair, the registration of the access
\* token, a TokenPrivilege write or the registration of the refresh token
\* fails, the exchange returns an error and no new Token or TokenPrivilege
\* row remains.
C17_ExchangeAllOrNothing ==
    [][(ExchangeStep /\ last'.exchange.failed \in RegistrationSteps)
       => (last'.err # NoError /\ ExchangeWroteNothing)]_vars

\* the registration of the refresh token failed after the access RPT and its
\* privileges were written
C17_Witness ==
    /\ last.op = "ExchangeRefreshToken"
    /\ last.exchange.failed = "refresh_create"
    /\ Len(last.exchange.tokenPrivs) = 2
    /\ last.err = InternalError

\* ------------------------------------------------------------------- C21

\* ValidateToken was called with the token of a record that is VALID, and
\* the record was loaded
ValidatedValidRecord ==
    /\ ValidateStep
    /\ last'.token \in DOMAIN tokens
    /\ tokens[last'.token].Status = {}
    /\ last'.err # CollaboratorError

\* C21: ValidateToken of a token with a VALID record touches the last-active
\* mark of the identity of the sub claim once when the claims do not mark the
\* token transient, and never when they do, the transient token being
\* accepted without its sub claim; when the touch fails the call fails with
\* Internal.
C21_TouchUnlessTransient ==
    [][ValidatedValidRecord =>
        IF Transient(claims[last'.token])
        THEN /\ last'.err = NoError
             /\ last'.count = 0
             /\ identities' = identities
        ELSE "sub" \in DOMAIN claims[last'.token] =>
               /\ last'.count = 1
               /\ last'.err \in {NoError, InternalError}
               /\ last'.err = NoError =>
                      identities' = TouchLastActive(identities, claims[last'.token].sub)
               /\ last'.err = InternalError => identities' = identities]_vars

\* the token of i1 was validated and i1 was marked active
C21_Witness ==
    /\ last.op = "ValidateToken"
    /\ last.err = NoError
    /\ last.count = 1
    /\ last.identity \in DOMAIN identities
    /\ identities[last.identity].LastActive

\* ------------------------------------------------------------------- C22

SetStatusStep == last = Idle /\ last'.op = "SetStatusForAllIdentityTokens"

\* the tokens of an identity
TokensOf(tk, identityID) == {id \in DOMAIN tk : tk[id].IdentityID = identityID}

\* C22: after a successful SetStatusForAllIdentityTokens(I, s) every Token of
\* I has status s, so that for s = REVOKED ValidateToken and Audit refuse
\* every token of I, and the Tokens of the other identities are as they were;
\* when I cannot be loaded the call fails and no status changes.
C22_BulkStatus ==
    [][SetStatusStep =>
        /\ last'.err = NoError =>
              /\ DOMAIN tokens' = DOMAIN tokens
              /\ \A id \in TokensOf(tokens, last'.identity) :
                    /\ tokens'[id] = [tokens[id] EXCEPT !.Status = last'.status]
                    /\ last'.status = {"REVOKED"} =>
                          /\ ValidateToken(tokens', identities, claims, id, "signed",
                                           "none").err = UnauthorizedError
                          /\ \A exists \in BOOLEAN :
                                AuditCheck(<<tokens'[id]>>, last'.identity, exists)
                                    = "revoked"
              /\ \A id \in DOMAIN tokens \ TokensOf(tokens, last'.identity) :
                    tokens'[id] = tokens[id]
        /\ last'.err # NoError => tokens' = tokens
        /\ last'.identity \notin DOMAIN identities => last'.err # NoError]_vars

\* the tokens of i1 were revoked while i2 has a token
C22_Witness ==
    /\ last.op = "SetStatusForAllIdentityTokens"
    /\ last.err = NoError
    /\ last.status = {"REVOKED"}
    /\ TokensOf(tokens, last.identity) # {}
    /\ DOMAIN tokens \ TokensOf(tokens, last.identity) # {}

\* ------------------------------------------------------------- C23 - C24

CleanupStep ==
    /\ last = Idle
    /\ last'.op = "CleanupExpiredTokens"
    /\ last'.err = NoError

\* the time before which the tokens of a cleanup have expired for too long
Cutoff(call) == call.cleanup.now - call.cleanup.retentionHours

\* the cleanup deleted the tokens that are older than the cutoff, whatever
\* their status and type, and left the other tokens as they were
DeletedOlderThanCutoff ==
    /\ DOMAIN tokens' = {id \in DOMAIN tokens : ~(tokens[id].ExpiryTime < Cutoff(last'))}
    /\ \A id \in DOMAIN tokens' : tokens'[id] = tokens[id]

AuditedEmbedded ==
    /\ AuditStep
    /\ last'.loaded # <<>>
    /\ last'.loaded[1].IdentityID = last'.identity
    /\ last'.resourceExistsInToken

\* Audit took the token for a valid one: (nil, nil) with nothing compared,
\* minted or written
AuditTreatedValid ==
    /\ last'.err = NoError
    /\ last'.minted = <<>>
    /\ last'.reads = {}
    /\ NothingWritten

\* ValidateToken loaded the record of the token
ValidateLoaded ==
    /\ ValidateStep
    /\ last'.token \in DOMAIN tokens
    /\ last'.err # CollaboratorError

\* C25: a token is treated as valid by Audit and by ValidateToken if and only
\* if its Status is 0: Audit answers that the token is sufficient, and
\* ValidateToken does not refuse it as Unauthorized, exactly when the record
\* has no flag; a record with any flag or combination of flags is not valid.
C25_ValidIffNoFlag ==
    [][/\ AuditedEmbedded =>
            (AuditTreatedValid <=> last'.loaded[1].Status = {})
       /\ ValidateLoaded =>
            (last'.err # UnauthorizedError <=> tokens[last'.token].Status = {})]_vars

\* ValidateToken refused a record that carries a combination of flags
C25_Witness ==
    /\ last.op = "ValidateToken"
    /\ last.token \in DOMAIN tokens
    /\ Cardinality(tokens[last.token].Status) >= 2
    /\ last.err = UnauthorizedError

\* ------------------------------------------------------------------- C26

\* the records that lose their last flag in the step
BecameValid ==
    {id \in DOMAIN tokens \cap DOMAIN tokens' :
        tokens[id].Status # {} /\ tokens'[id].Status = {}}

\* C26: over the calls of Audit, ExchangeRefreshToken, RegisterToken,
\* ValidateToken and CleanupExpiredTokens, the bulk status update left aside,
\* a record becomes VALID only by the stale reset of Audit, for the token
\* that was audited and from a status whose only flag is STALE; a record with
\* REVOKED, LOGGED_OUT or DEPROVISIONED set never becomes VALID.
C26_OnlyStaleReset ==
    [][~SetStatusStep =>
        \A id \in BecameValid :
            /\ last'.op = "Audit"
            /\ last'.token = id
            /\ last'.err = NoError
            /\ tokens[id].Status = {"STALE"}]_vars

\* Audit was called with an own token that embeds the resource and whose
\* record is both STALE and REVOKED, and the record kept its flags
C26_Witness ==
    /\ AuditedOwnToken
    /\ last.resourceExistsInToken
    /\ last.loaded[1].Status = {"STALE", "REVOKED"}
    /\ tokens[last.token].Status = {"STALE", "REVOKED"}

\* ------------------------------------------------------------------- C28

\* the flags that end the use of a token
TerminalFlags == {"REVOKED", "LOGGED_OUT", "DEPROVISIONED"}

\* C28: however Audit and a bulk status update of the tokens of its caller
\* interleave, no step of Audit makes VALID a record that carries REVOKED,
\* LOGGED_OUT or DEPROVISIONED: the stale reset does not overwrite a flag
\* that a committed bulk update set between its load and its save.
C28_ResetKeepsFlags ==
    [][last'.op = "Audit" =>
        \A id \in DOMAIN tokens \cap DOMAIN tokens' :
            tokens[id].Status \cap TerminalFlags # {} => tokens'[id].Status # {}]_vars

\* Audit loaded a STALE record, a bulk update then marked the tokens of the
\* caller REVOKED, and the save of Audit left the record VALID
C28_Witness ==
    /\ last.op = "Audit"
    /\ last.err = NoError
    /\ last.loaded # <<>>
    /\ last.loaded[1].Status = {"STALE"}
    /\ last.status = {"REVOKED"}
    /\ tokens[last.token].Status = {}

\* ------------------------------------------------------------------- C29

\* a call of Audit in which the load of the record by jti answered an error
\* that is not NotFound
AuditLoadFailed == AuditStep /\ last'.tokenString = "load_error"

\* C29: only a NotFound of the load of the prior record counts as "no
\* record"; when the load fails otherwise, Audit fails with an error, mints
\* no token and writes nothing.
C29_LoadFailureFails ==
    [][AuditLoadFailed =>
        /\ last'.err # NoError
        /\ last'.minted = <<>>
        /\ NothingWritten]_vars

\* the load of a REVOKED record of the caller failed, and Audit returned a
\* new token to the caller
C29_Witness ==
    /\ last.op = "Audit"
    /\ last.tokenString = "load_error"
    /\ last.token \in DOMAIN tokens
    /\ tokens[last.token].IdentityID = last.identity
    /\ "REVOKED" \in tokens[last.token].Status
    /\ last.err = NoError
    /\ last.minted # <<>>

\* ------------------------------------------------------------------- C30

\* the exchange reached its checks with the record of the token supplied as
\* rptToken
ExchangeCheckedRecord ==
    /\ ExchangeStep
    /\ last'.exchange.identity # NilIdentity
    /\ last'.exchange.rptString = "signed"
    /\ last'.exchange.rpt \in DOMAIN tokens

\* the decisions of Audit that end the call with an error
Refusals == {"not_owner", "deprovisioned", "revoked"}

\* the errors of the ownership and status checks
CheckErrors == {CheckError(d) : d \in Refusals}

\* C30: for every record supplied as rptToken the checks of the exchange give
\* the outcome of the checks of Audit in the same order: plain Unauthorized
\* for a record of another identity, else the deprovisioned code for
\* DEPROVISIONED, else the revoked code for REVOKED or LOGGED_OUT, and nothing
\* is generated or written; for every other record, STALE or VALID, the
\* exchange continues and does not fail on the record.
C30_ChecksOfAudit ==
    [][ExchangeCheckedRecord =>
        LET x == last'.exchange
            loaded == <<tokens[x.rpt]>>
        IN  \A exists \in BOOLEAN :
              LET decision == AuditCheck(loaded, x.identity, exists)
              IN  IF decision \in Refusals
                  THEN /\ last'.err = CheckError(decision)
                       /\ ~x.generated
                       /\ ExchangeWroteNothing
                  ELSE /\ last'.err \notin CheckErrors
                       /\ x.failed = "none" => last'.err = NoError]_vars

\* the record supplied as rptToken belongs to another identity and is
\* DEPROVISIONED, and the exchange answered the plain Unauthorized
C30_Witness ==
    /\ last.op = "ExchangeRefreshToken"
    /\ last.exchange.identity # NilIdentity
    /\ last.exchange.rpt \in DOMAIN tokens
    /\ tokens[last.exchange.rpt].IdentityID # last.exchange.identity
    /\ "DEPROVISIONED" \in tokens[last.exchange.rpt].Status
    /\ last.err = UnauthorizedError

\* ------------------------------------------------------------------- C27

\* a call of RetrieveExternalToken for a provider by a user who is not banned
RetrieveStep ==
    /\ last = Idle
    /\ last'.op = "RetrieveExternalToken"
    /\ last'.resource \in Providers
    /\ ~identities[last'.identity].Banned

\* the external tokens of the caller for the provider of the call, in the
\* order of their creation
RowsOfCall(call) == RowsOf(externalTokens, call.resource, call.identity)

ExchangeMigrated ==
    /\ ExchangeStep
    /\ last'.exchange.generated
    /\ last'.exchange.identity # NilIdentity
    /\ last'.exchange.rptString = "signed"
    /\ last'.exchange.rpt \in DOMAIN tokens

\* the historical privilege of a resource among old
PrivilegeOf(old, resourceID) == CHOOSE p \in old : p.ResourceID = resourceID

\* C31: the exchange of an rptToken whose record has n historical privileges
\* migrates, with the maximum M, min(M, n) of them: those with the latest
\* expiry, in descending order of expiry, whatever their resource.  An entry
\* carries the scopes and expiry of the privilege cache as it answers now
\* when the privilege is stale or the record has STALE, and the recorded
\* scopes and expiry otherwise.
C31_ExchangeMigratesLatest ==
    [][ExchangeMigrated =>
        LET x == last'.exchange
            old == ListPrivileges(cache, privileges, x.rpt)
            perms == x.permissions
            stale == HasStatus(tokens[x.rpt], "STALE")
            taken == {perms[k].ResourceSetID : k \in 1..Len(perms)}
        IN  /\ Len(perms) = Min(maxPerms, Cardinality(old))
            /\ Cardinality(taken) = Len(perms)
            /\ taken \subseteq {p.ResourceID : p \in old}
            /\ \A j, k \in 1..Len(perms) :
                  j < k => PrivilegeOf(old, perms[j].ResourceSetID).ExpiryTime
                             >= PrivilegeOf(old, perms[k].ResourceSetID).ExpiryTime
            /\ \A p \in old : p.ResourceID \notin taken =>
                  \A r \in taken : PrivilegeOf(old, r).ExpiryTime >= p.ExpiryTime
            /\ \A k \in 1..Len(perms) :
                  LET p == PrivilegeOf(old, perms[k].ResourceSetID)
                      privilegeCache == CachedPrivileges(cache, x.identity,
                                                         p.ResourceID, ExchangeFresh)
                  IN  IF stale \/ p.Stale
                      THEN /\ perms[k].Scopes = privilegeCache.Scopes
                           /\ perms[k].Expiry = privilegeCache.ExpiryTime
                      ELSE /\ perms[k].Scopes = p.Scopes
                           /\ perms[k].Expiry = p.ExpiryTime]_vars

\* with a maximum of one, the exchange took one of the two privileges of the
\* rptToken and refreshed it from the privilege cache
C31_Witness ==
    /\ last.op = "ExchangeRefreshToken"
    /\ last.err = NoError
    /\ maxPerms = 1
    /\ last.exchange.rpt \in DOMAIN tokens
    /\ Cardinality(ListPrivileges(cache, privileges, last.exchange.rpt)) = 2
    /\ Len(last.exchange.permissions) = 1
    /\ last.exchange.permissions[1].Scopes = ExchangeFresh[last.exchange.permissions[1].ResourceSetID]

\* ------------------------------------------------------------------- C32

\* C32: scopesEquivalent is symmetric and does not depend on the order of
\* the lists: for all scope lists a and b, with repeated names allowed,
\* scopesEquivalent(a, b) = scopesEquivalent(b, a), and it is true exactly
\* when a and b have the same length and the same members.
C32_SymmetricSameMembers ==
    last.op = "scopesEquivalent" =>
        LET a == last.scopes.value1
            b == last.scopes.value2
        IN  /\ last.scopes.equivalent = scopesEquivalent(b, a)
            /\ last.scopes.equivalent <=> (Len(a) = Len(b) /\ Range(a) = Range(b))

\* <<"a", "a">> was found equivalent to <<"a", "b">>
C32_Witness ==
    /\ last.op = "scopesEquivalent"
    /\ last.scopes.value1 = <<"a", "a">>
    /\ last.scopes.value2 = <<"a", "b">>
    /\ last.scopes.equivalent

\* ------------------------------------------------------------------- C33

\* the records the step added to the token table and those it removed
Added == DOMAIN tokens' \ DOMAIN tokens
Removed == DOMAIN tokens \ DOMAIN tokens'

\* the step is the stale reset of Audit on the record id
StaleResetOf(id) ==
    /\ last'.op = "Audit"
    /\ last'.token = id
    /\ last'.minted = <<>>
    /\ tokens[id].Status = {"STALE"}
    /\ tokens'[id].Status = {}

\* the added records are those a call of RegisterToken wrote: by the caller
\* of RegisterToken, by the mint of Audit, by the exchange, or for a token
\* string signed outside these calls
AddedByRegisterToken ==
    \/ last'.op = "RegisterToken" /\ Added = {last'.token}
    \/ last'.op = "Audit" /\ Added = Range(last'.minted)
    \/ last'.op = "ExchangeRefreshToken" /\ Added = Range(last'.exchange.pair)
    \/ last' = Idle /\ last = Idle

\* C33: over every step of the service the TokenID, IdentityID, TokenType and
\* ExpiryTime of an existing record stay as they are; its Status changes only
\* in the stale reset of Audit or in SetStatusForAllIdentityTokens, so that
\* the mint of Audit and the exchange leave the status of the superseded RPT
\* and of the refresh token alone; records are added only by RegisterToken,
\* as rows without a flag, and removed only by CleanupExpiredTokens.
C33_TokenFrame ==
    [][/\ \A id \in DOMAIN tokens \cap DOMAIN tokens' :
            /\ tokens'[id].TokenID = tokens[id].TokenID
            /\ tokens'[id].IdentityID = tokens[id].IdentityID
            /\ tokens'[id].TokenType = tokens[id].TokenType
            /\ tokens'[id].ExpiryTime = tokens[id].ExpiryTime
            /\ tokens'[id].Status # tokens[id].Status =>
                  (SetStatusStep \/ StaleResetOf(id))
       /\ Added # {} =>
            /\ AddedByRegisterToken
            /\ \A id \in Added :
                  tokens'[id] = NewTokenRow(tokens'[id].IdentityID, id, claims'[id],
                                            tokens'[id].TokenType)
       /\ Removed # {} => CleanupStep]_vars

\* Audit minted a new token for a STALE token, and the record of the STALE
\* token is as it was
C33_Witness ==
    /\ last.op = "Audit"
    /\ last.err = NoError
    /\ last.minted # <<>>
    /\ last.minted[1] \in DOMAIN tokens
    /\ last.loaded # <<>>
    /\ last.token \in DOMAIN tokens
    /\ tokens[last.token] = last.loaded[1]
    /\ tokens[last.token].Status = {"STALE"}

\* ------------------------------------------------------------------- C34

\* the tokens the step minted: the new RPT of Audit, the access token of
\* the exchange
MintedInStep ==
    IF last = Idle /\ last'.op = "Audit" /\ last'.err = NoError
    THEN Range(last'.minted)
    ELSE IF ExchangeStep /\ last'.err = NoError /\ last'.exchange.pair # <<>>
    THEN {last'.exchange.pair[1]}
    ELSE {}

\* C34: the TokenPrivilege rows persisted for a token minted by Audit or by
\* the exchange correspond one to one to the permissions it embeds: as many
\* rows as permissions, no resource embedded twice, and one row for each
\* embedded resource.
C34_RowPerPermission ==
    [][\A id \in MintedInStep :
          LET perms == claims'[id].Permissions
              rows == {p \in privileges' : p.TokenID = id}
              embedded == {perms[k].ResourceSetID : k \in 1..Len(perms)}
          IN  /\ Cardinality(rows) = Len(perms)
              /\ Cardinality(embedded) = Len(perms)
              /\ {p.PrivilegeCacheID[2] : p \in rows} = embedded]_vars

\* Audit minted a token with two permissions and two rows
C34_Witness ==
    /\ AuditMinted
    /\ Len(MintedPermissions) = 2
    /\ Cardinality({p \in privileges : p.TokenID = last.minted[1]}) = 2

\* ------------------------------------------------------------------- C35

\* C35: every TokenPrivilege row persisted for a minted token references the
\* privilege cache entry whose scopes and expiry the token embeds for the
\* resource of the row, also when the entry was migrated from a stale
\* privilege and refreshed from the privilege cache during the mint.
C35_RowReferencesEmbedded ==
    [][\A id \in MintedInStep :
          LET perms == claims'[id].Permissions
          IN  \A p \in {q \in privileges' : q.TokenID = id} :
                /\ p.PrivilegeCacheID \in DOMAIN cache'
                /\ p.PrivilegeCacheID[1] = tokens'[id].IdentityID
                /\ \E k \in 1..Len(perms) :
                      /\ perms[k].ResourceSetID = p.PrivilegeCacheID[2]
                      /\ perms[k].Scopes = cache'[p.PrivilegeCacheID].Scopes
                      /\ perms[k].Expiry = cache'[p.PrivilegeCacheID].ExpiryTime]_vars

\* Audit minted a token whose second permission was migrated from a stale
\* privilege and refreshed, and the row of the permission references the
\* refreshed entry
C35_Witness ==
    /\ AuditMinted
    /\ Len(MintedPermissions) = 2
    /\ MintedPermissions[2].ResourceSetID \in last.reads
    /\ MintedPermissions[2].Scopes # <<"a">>
    /\ \E p \in privileges :
          /\ p.TokenID = last.minted[1]
          /\ p.PrivilegeCacheID[2] = MintedPermissions[2].ResourceSetID
          /\ cache[p.PrivilegeCacheID].Scopes = MintedPermissions[2].Scopes

\* ------------------------------------------------------------------- C36

\* the token records and rows of the transaction of the last call that the
\* other operations can read
VisibleOf(tx) ==
    {w \in Range(tx.writes) :
        IF w.table = "token" THEN w.id \in DOMAIN tokens ELSE w.row \in privileges}

DomainErrors == {"BadParameter", "Unauthorized", "NotFound"}

\* C37: a typed domain error raised inside the multi-write sequence of Audit
\* or of the exchange reaches the caller with its type unchanged, as the
\* BadParameter RegisterToken raises while Audit is minting.
C37_TypedErrorUnchanged ==
    [][/\ (AuditStep /\ last'.raised.type \in DomainErrors)
            => last'.err.type = last'.raised.type
       /\ (ExchangeStep /\ last'.exchange.failed = "parse")
            => last'.err.type = "BadParameter"]_vars

\* RegisterToken raised BadParameter while Audit was minting and Audit
\* returned Internal
C37_Witness ==
    /\ last.op = "Audit"
    /\ last.raised.type = "BadParameter"
    /\ last.err = InternalError
    /\ last.reads # {}

\* ------------------------------------------------------------------- C38

\* every outcome of Audit(identity, t, resourceID) on the tables db and the
\* token strings cl is (nil, nil) and leaves the tables as they are
AuditSuffices(db, cl, identity, t, resourceID, max) ==
    \A fault \in AuditFaults(db, cl, identity, t, resourceID),
       fresh \in FreshChoices(db, cl, identity, t, resourceID) :
        \A order \in AuditOrders(db, cl, identity, t, resourceID, fresh) :
            LET out == AuditCall(db, cl, identity, t, resourceID, NextTokenID(cl),
                                 fault, fresh, order, max)
            IN  out.err = NoError /\ out.minted = <<>> /\ out.db = db

\* C38: when Audit(identity, T, R) has minted T', an Audit(identity, T', R)
\* on the tables the mint left returns (nil, nil) and mints nothing.
C38_MintedSuffices ==
    [][(AuditStep /\ last'.minted # <<>>)
       => AuditSuffices(DB(tokens', privileges', cache'), claims', last'.identity,
                        last'.minted[1], last'.resource, maxPerms)]_vars

\* Audit was called with the token an earlier Audit had minted for the same
\* resource and returned (nil, nil)
C38_Witness ==
    /\ last.op = "Audit"
    /\ last.token = 2
    /\ used.registrations = 1
    /\ DOMAIN claims = {1, 2}
    /\ last.err = NoError
    /\ last.minted = <<>>
    /\ last.loaded # <<>>
    /\ last.loaded[1].TokenType = "rpt_token"
    /\ last.loaded[1].Status = {}
    /\ claims[2].Permissions[1].ResourceSetID = last.resource

\* ------------------------------------------------------------------- C39

\* no outcome of Audit(identity, t, resourceID) on the tables db mints
AuditNeverMints(db, cl, identity, t, resourceID, max) ==
    \A fault \in AuditFaults(db, cl, identity, t, resourceID),
       fresh \in FreshChoices(db, cl, identity, t, resourceID) :
        \A order \in AuditOrders(db, cl, identity, t, resourceID, fresh) :
            AuditCall(db, cl, identity, t, resourceID, NextTokenID(cl),
                      fault, fresh, order, max).minted = <<>>

\* the tokens whose record carries REVOKED, LOGGED_OUT or DEPROVISIONED
Ended == {t \in DOMAIN tokens : tokens[t].Status \cap TerminalFlags # {}}

\* C39: a token whose record has carried REVOKED, LOGGED_OUT or DEPROVISIONED
\* is never answered with a new token: an Audit that presents it mints
\* nothing, and after a CleanupExpiredTokens, which may have purged its
\* record, an Audit that presents it still mints nothing.
C39_EndedNeverMints ==
    [][/\ (AuditStep /\ last'.token \in Ended) => last'.minted = <<>>
       /\ CleanupStep =>
            \A t \in Ended, identity \in Identities, resourceID \in Resources :
                AuditNeverMints(DB(tokens', privileges', cache'), claims', identity,
                                t, resourceID, maxPerms)]_vars

\* the cleanup has purged a record, and Audit mints for the token string of
\* that record as for one without a prior record
C39_Witness ==
    /\ last.op = "CleanupExpiredTokens"
    /\ last.err = NoError
    /\ used.statusUpdates = 1
    /\ \E t \in DOMAIN claims \ DOMAIN tokens :
        /\ {p \in privileges : p.TokenID = t} # {}
        /\ AuditDecision(DB(tokens, privileges, cache), claims, "i1", t, "r1") = "mint"

\* ------------------------------------------------------------------- C40

\* the call has committed its transaction, and a bulk update that set REVOKED
\* on the tokens of its caller committed while the transaction was open
RevokedDuringCall ==
    /\ last.transaction # <<>>
    /\ last.transaction[1].done > Len(last.transaction[1].writes)
    /\ "REVOKED" \in last.status

\* C40: when SetStatusForAllIdentityTokens(I, REVOKED) has committed beside
\* an Audit or an exchange of I that had passed its status checks, no token
\* of I is VALID once both have finished: the call leaves no freshly
\* registered VALID token behind it.
C40_NoValidAfterRevoke ==
    RevokedDuringCall =>
        \A id \in DOMAIN tokens :
            tokens[id].IdentityID = last.identity => tokens[id].Status # {}

\* Audit minted beside the bulk update: the record it was called with is
\* REVOKED and the token it registered is VALID
C40_Witness ==
    /\ RevokedDuringCall
    /\ last.op = "Audit"
    /\ last.minted # <<>>
    /\ last.token \in DOMAIN tokens
    /\ "REVOKED" \in tokens[last.token].Status
    /\ tokens[last.minted[1]].IdentityID = last.identity
    /\ tokens[last.minted[1]].Status = {}

====
